---- MODULE Spec2Model ----
(***************************************************************************)
(* A model of the global minimization engine of libgibbs (pycalphad cpp):  *)
(* GlobalMinimizer::run and GlobalMinimizer::find_tie_points, the internal *)
(* and the global lower convex hull builders, and                          *)
(* restore_dependent_dimensions.                                           *)
(*                                                                         *)
(* Numbers.  Site fractions, mole fractions and the entries of basis       *)
(* matrices are reals in the code.  Here a fraction v is the integer       *)
(* v * Unit, so that 1 is Unit; a product of two fractions is an integer   *)
(* in units of 1 / (Unit * Unit).  Energies are integers.  All arithmetic  *)
(* of the model is exact, so a statement "within 1e-12" of the spec reads  *)
(* "exactly" here.                                                         *)
(*                                                                         *)
(* Ids.  Point ids and dimension indices are 0-based, as in the code; a    *)
(* sequence s of the model holds the element of index i at s[i + 1].       *)
(***************************************************************************)
EXTENDS Integers, Sequences, FiniteSets, TLC

VARIABLES
    hull_map,               \* GlobalMinimizer::hull_map: the entries, in id order
    candidate_facets,       \* GlobalMinimizer::candidate_facets
    sys,                    \* the caller's phase_list / sublset / conditions.elements
    call,                   \* the latest call on the minimizer: arguments, locals, return value
    phase_sublattices,      \* pure-function specifications: species per sublattice of one phase
    points,                 \* pure-function specifications: the points handed to the hull builder
    dependent_dimensions,   \* pure-function specifications: the set run() computes
    final_points,           \* pure-function specifications: what the hull builder returns
    settings,               \* GlobalMinimizer: the settings the constructor initializes
    compsets,               \* the CompositionSet objects, by name
    heap                    \* the EnergyModel objects the composition sets own, by address

vars == <<hull_map, candidate_facets, sys, call,
          phase_sublattices, points, dependent_dimensions, final_points,
          settings, compsets, heap>>

function_vars == <<phase_sublattices, points, dependent_dimensions, final_points>>

object_vars == <<settings, compsets, heap>>

----------------------------------------------------------------------------
(* Program constants *)

\* GlobalMinimizer(): initial_subdivisions_per_axis = 20
initial_subdivisions_per_axis == 20
\* GlobalMinimizer(): refinement_subdivisions_per_axis = 2
refinement_subdivisions_per_axis == 2
\* The finest spacing one refinement of the initial grid produces is 1/40;
\* it is the unit of every fraction of the model.
Unit == initial_subdivisions_per_axis * refinement_subdivisions_per_axis
\* find_tie_points: const double critical_edge_length = 0.05, as a ratio
critical_edge_length_num == 5
critical_edge_length_den == 100
\* max_search_depth = 5 (line 63)
max_search_depth == 5

\* lines 59-65: the settings after construction
GlobalMinimizerSettings ==
    [initial_subdivisions_per_axis |-> initial_subdivisions_per_axis,
     refinement_subdivisions_per_axis |-> refinement_subdivisions_per_axis,
     max_search_depth |-> max_search_depth,
     discard_unstable |-> TRUE]

\* no composition set exists
NoCompositionSets == compsets = <<>> /\ heap = <<>>

(* Bounds of the model *)
MaxSublattices == 3     \* sublattices of a phase (dependent-dimension inputs)
MaxSpecies == 4         \* species of one sublattice (dependent-dimension inputs)
MaxPoints == 2          \* length of a short point list handed to the internal hull
MaxGridPoints == 6      \* largest full grid handed to the internal hull
MaxFacets == 2          \* facets the hull engine reports in one call
MaxArea == 2            \* facet areas are 1..MaxArea
MaxHullSize == 5        \* entries the hull map may hold
MaxCandidates == 4      \* ids the merge loop of find_tie_points may be handed
MaxParameters == 2      \* parameters in the parameter set of a phase
MaxSearchDepth == 3     \* values of max_search_depth a caller configures: 0..MaxSearchDepth
MaxSamplerDepth == 6    \* depth the sampler's recursion can reach on its own

----------------------------------------------------------------------------
(* Sequences of numbers *)

RECURSIVE SeqSum(_)
SeqSum(s) == IF s = <<>> THEN 0 ELSE Head(s) + SeqSum(Tail(s))

\* s < t in the order of std::vector<double>::operator< (lexicographic)
RECURSIVE LexLess(_, _)
LexLess(s, t) ==
    IF t = <<>> THEN FALSE
    ELSE IF s = <<>> THEN TRUE
    ELSE IF Head(s) < Head(t) THEN TRUE
    ELSE IF Head(t) < Head(s) THEN FALSE
    ELSE LexLess(Tail(s), Tail(t))

\* the elements of a set of numbers, ascending (iteration order of std::set)
RECURSIVE SetToSeq(_)
SetToSeq(S) ==
    IF S = {} THEN <<>>
    ELSE LET m == CHOOSE x \in S : \A y \in S : x <= y
         IN <<m>> \o SetToSeq(S \ {m})

Range(s) == {s[i] : i \in 1..Len(s)}

RemoveAt(s, i) == [k \in 1..(Len(s) - 1) |-> IF k < i THEN s[k] ELSE s[k + 1]]

\* std::sort of a vector of points: equal points are identical, so the
\* sorted vector is unique
RECURSIVE SortPoints(_)
SortPoints(s) ==
    IF s = <<>> THEN <<>>
    ELSE LET i == CHOOSE k \in 1..Len(s) : \A l \in 1..Len(s) : ~LexLess(s[l], s[k])
         IN <<s[i]>> \o SortPoints(RemoveAt(s, i))

RECURSIVE Flatten(_)
Flatten(ss) == IF ss = <<>> THEN <<>> ELSE Head(ss) \o Flatten(Tail(ss))

----------------------------------------------------------------------------
(* run(): the dependent dimensions of a phase, lines 157-181 *)

\* std::distance(ic0, ic1) for sublattice sublindex of the phase: the number
\* of sublattice_set entries of that (phase, sublattice index)
number_of_species(ns, sublindex) ==
    IF sublindex + 1 \in 1..Len(ns) THEN ns[sublindex + 1] ELSE 0

\* the while loop: it ends at the first sublattice index that has no entry
RECURSIVE DependentDimensionsLoop(_, _, _, _)
DependentDimensionsLoop(ns, sublindex, current_dependent_dimension, deps) ==
    IF number_of_species(ns, sublindex) = 0 THEN deps
    ELSE LET last == current_dependent_dimension + (number_of_species(ns, sublindex) - 1)
         IN DependentDimensionsLoop(ns, sublindex + 1, last + 1, deps \cup {last})

\* a plausible slip: the offset is not advanced past the dependent dimension
RECURSIVE DependentDimensionsNoAdvance(_, _, _, _)
DependentDimensionsNoAdvance(ns, sublindex, current_dependent_dimension, deps) ==
    IF number_of_species(ns, sublindex) = 0 THEN deps
    ELSE LET last == current_dependent_dimension + (number_of_species(ns, sublindex) - 1)
         IN DependentDimensionsNoAdvance(ns, sublindex + 1, last, deps \cup {last})

DependentDimensions_NoAdvance(ns) == DependentDimensionsNoAdvance(ns, 0, 0, {})

DependentDimensions(ns) == DependentDimensionsLoop(ns, 0, 0, {})

----------------------------------------------------------------------------
(* restore_dependent_dimensions, convex_hull.cpp lines 226-246 *)

\* *iter.  Reading at cend() is a read past the vector; no call of the model
\* reaches it (every point handed over is long enough), and the value below
\* makes TLC stop if one ever does.
Deref(point, iter) == IF iter \in 1..Len(point) THEN point[iter] ELSE "past-the-end"

\* One pass of the outer loop per dependent dimension, ascending: copy the
\* coordinates sublattice_offset..dim-1 from the iterator, then append
\* 1 - point_sum.  The iterator only ever advances by the coordinates copied:
\* it is never moved past a dependent coordinate already present in point.
RECURSIVE RestoreLoop(_, _, _, _)
RestoreLoop(point, dims, iter, sublattice_offset) ==
    IF dims = <<>> THEN <<>>
    ELSE LET dim == Head(dims)
             count == IF dim > sublattice_offset THEN dim - sublattice_offset ELSE 0
             copied == [i \in 1..count |-> Deref(point, iter + i - 1)]
         IN copied \o <<Unit - SeqSum(copied)>>
                \o RestoreLoop(point, Tail(dims), iter + count, dim + 1)

restore_dependent_dimensions(point, dims) == RestoreLoop(point, SetToSeq(dims), 1, 0)

----------------------------------------------------------------------------
(* The hull engine (Qhull), a black box.  A facet it reports has the       *)
(* attributes the code reads: isDefined, isGood, isSimplicial, the         *)
(* hyperplane (only its length and its last coefficient are read), the     *)
(* vertices (ids of input points) and the area.                            *)

\* "Qbk:0Bk:0" drops dimension k of every input point: a vertex's point()
\* is the input point without the dropped coordinates
DropDimensions(point, dims) ==
    LET keep == SetToSeq({i \in 0..(Len(point) - 1) : i \notin dims})
    IN [k \in 1..Len(keep) |-> point[keep[k] + 1]]

Hyperplane(len, orientation) == [i \in 1..len |-> IF i = len THEN orientation ELSE 0]

\* what a reported facet can look like, apart from its vertices and area
FacetKinds(dim) ==
    { [isDefined |-> TRUE,  isGood |-> TRUE,  isSimplicial |-> TRUE,  hyperplane |-> Hyperplane(dim, -1)],
      [isDefined |-> TRUE,  isGood |-> TRUE,  isSimplicial |-> TRUE,  hyperplane |-> Hyperplane(dim, 0)],
      [isDefined |-> TRUE,  isGood |-> TRUE,  isSimplicial |-> TRUE,  hyperplane |-> Hyperplane(dim, 1)],
      [isDefined |-> FALSE, isGood |-> TRUE,  isSimplicial |-> TRUE,  hyperplane |-> Hyperplane(dim, -1)],
      [isDefined |-> TRUE,  isGood |-> TRUE,  isSimplicial |-> FALSE, hyperplane |-> Hyperplane(dim, -1)] }

\* the kinds above, a facet that is not good and a facet whose hyperplane
\* has no coefficients
AllFacetKinds(dim) ==
    FacetKinds(dim) \cup
    { [isDefined |-> TRUE, isGood |-> FALSE, isSimplicial |-> TRUE, hyperplane |-> Hyperplane(dim, -1)],
      [isDefined |-> TRUE, isGood |-> TRUE,  isSimplicial |-> TRUE, hyperplane |-> <<>>] }

Facet(kind, vertices, area) ==
    [isDefined |-> kind.isDefined, isGood |-> kind.isGood, isSimplicial |-> kind.isSimplicial,
     hyperplane |-> kind.hyperplane, vertices |-> vertices, area |-> area]

\* vertex sets of the facets of a hull in dimension dim over point_count points
VertexSets(point_count, dim) ==
    {S \in SUBSET (0..(point_count - 1)) : Cardinality(S) = dim}

Reverse(s) == [i \in 1..Len(s) |-> s[Len(s) + 1 - i]]

ListsOf(S) == UNION {[1..k -> S] : k \in 0..MaxFacets}

\* *(facet.hyperplane().constEnd()-1).  Of a hyperplane without coefficients
\* the code reads this before it tests the length; whatever it reads, the
\* facet is skipped (by "orientation > 0" or by the length test that follows).
Orientation(facet) ==
    IF facet.hyperplane = <<>> THEN 0 ELSE facet.hyperplane[Len(facet.hyperplane)]

----------------------------------------------------------------------------
(* internal_lower_convex_hull, convex_hull.cpp lines 46-224.  A point is   *)
(* the site fractions of all sublattices followed by the energy.           *)

\* lines 94-107: the facets whose vertices are collected
InternalFacetKept(facet) ==
    /\ facet.isDefined
    /\ facet.isGood
    /\ ~(Orientation(facet) > 0)
    /\ facet.hyperplane # <<>>

\* lines 103-105: every vertex of a kept facet, restored from the point the
\* engine holds (the input point without the dropped dimensions)
InternalCandidatePoints(pts, dims, facets) ==
    Flatten([f \in 1..Len(facets) |->
        IF InternalFacetKept(facets[f])
        THEN [v \in 1..Len(facets[f].vertices) |->
                 restore_dependent_dimensions(
                     DropDimensions(pts[facets[f].vertices[v] + 1], dims), dims)]
        ELSE <<>>])

\* too_similar (lines 173-183): the tolerance 1e-20 is equality of the
\* model's exact numbers
too_similar(a, b) == Len(a) = Len(b) /\ \A i \in 1..Len(a) : a[i] = b[i]

\* std::unique with too_similar: drops an element similar to the one kept
\* before it
RECURSIVE Unique(_)
Unique(s) ==
    IF Len(s) <= 1 THEN s
    ELSE IF too_similar(s[1], s[2]) THEN Unique(<<s[1]>> \o Tail(Tail(s)))
    ELSE <<s[1]>> \o Unique(Tail(s))

\* a scan that moves on to every point that is not higher in energy
RECURSIVE MinimumPointIndex_last(_, _, _)
MinimumPointIndex_last(pts, best, i) ==
    IF i > Len(pts) THEN best
    ELSE IF pts[best][Len(pts[best])] >= pts[i][Len(pts[i])]
         THEN MinimumPointIndex_last(pts, i, i + 1)
         ELSE MinimumPointIndex_last(pts, best, i + 1)

\* lines 204-214: the first point of lowest energy, without its energy
RECURSIVE MinimumPointIndex(_, _, _)
MinimumPointIndex(pts, best, i) ==
    IF i > Len(pts) THEN best
    ELSE IF pts[best][Len(pts[best])] > pts[i][Len(pts[i])]
         THEN MinimumPointIndex(pts, i, i + 1)
         ELSE MinimumPointIndex(pts, best, i + 1)

PopBack(s) == SubSeq(s, 1, Len(s) - 1)

\* which of the four ways out internal_lower_convex_hull takes
InternalHullPath(pts, dims, facets) ==
    IF Len(pts) = 1 THEN "single"
    ELSE IF Len(pts) <= Len(pts[1]) THEN "few"
    ELSE IF InternalCandidatePoints(pts, dims, facets) # <<>> THEN "hull"
    ELSE "lowest"

internal_lower_convex_hull(pts, dims, facets) ==
    IF Len(pts) = 1
    THEN <<restore_dependent_dimensions(pts[1], dims)>>
    ELSE IF Len(pts) <= Len(pts[1])
    THEN [i \in 1..Len(pts) |-> restore_dependent_dimensions(pts[i], dims)]
    ELSE LET candidate_points == InternalCandidatePoints(pts, dims, facets)
         IN  IF candidate_points # <<>>
             THEN LET deduplicated == Unique(SortPoints(candidate_points))
                  IN [i \in 1..Len(deduplicated) |->
                         restore_dependent_dimensions(deduplicated[i], dims)]
             ELSE <<PopBack(pts[MinimumPointIndex(pts, 1, 1)])>>

\* The facet lists the engine can report for an internal hull: the engine is
\* called only with more points than dimensions.  The hull lives in the
\* dimensions that are left, and a facet of it has that many vertices.
InternalQhullResults(pts, dims) ==
    IF Len(pts) <= Len(pts[1]) THEN {<<>>}
    ELSE LET dim == Len(pts[1]) - Cardinality(dims)
         IN ListsOf({Facet(kind, SetToSeq(S), 1) :
                        kind \in FacetKinds(dim), S \in VertexSets(Len(pts), dim)})

----------------------------------------------------------------------------
(* The hull map (hull_mapping.hpp): an append-only vector of entries *)

\* insert_point: the new entry gets the next dense id
insert_point(hm, phase_name, energy, internal_coordinates, global_coordinates) ==
    Append(hm, [id |-> Len(hm),
                phase_name |-> phase_name,
                energy |-> energy,
                internal_coordinates |-> internal_coordinates,
                global_coordinates |-> global_coordinates,
                global_hull_status |-> FALSE])

\* hull_map[id]
Entry(hm, id) == hm[id + 1]

\* set_global_hull_status(id, true) for every id of ids
MarkGlobalHull(hm, ids) ==
    [k \in 1..Len(hm) |->
        IF (k - 1) \in ids THEN [hm[k] EXCEPT !.global_hull_status = TRUE] ELSE hm[k]]

----------------------------------------------------------------------------
(* The collaborators of run() *)

\* CompositionSet::evaluate_objective for a phase whose model is the pure
\* compound reference: the end-member energies weighted by the site fractions
evaluate_objective(phase, y) ==
    SeqSum([i \in 1..Len(y) |-> phase.endmember_energy[i] * y[i]])

\* point_sample (AdaptiveSimplexSample): the first count points of the
\* phase's sampling sequence, each followed by its energy
point_sample(phase, count) ==
    [i \in 1..count |-> phase.samples[i] \o <<evaluate_objective(phase, phase.samples[i])>>]

\* convert_site_fractions_to_mole_fractions for a phase whose sublattices all
\* have one site and hold every element: the mean over the sublattices
convert_site_fractions_to_mole_fractions(elements, phase, point) ==
    LET k == Len(phase.sublattices)
    IN [e \in 1..elements |->
           SeqSum([sl \in 1..k |-> point[(sl - 1) * elements + e]]) \div k]

----------------------------------------------------------------------------
(* global_lower_convex_hull, convex_hull_global.cpp lines 50-208.  A point *)
(* is the mole fractions of all elements followed by the energy.           *)

\* a filter without the test of the orientation
GlobalFacetKept_AnyOrientation(facet) ==
    /\ facet.isDefined
    /\ facet.isGood
    /\ facet.isSimplicial
    /\ facet.hyperplane # <<>>

\* lines 100-104: the facets that become candidates
GlobalFacetKept(facet) ==
    /\ facet.isDefined
    /\ facet.isGood
    /\ facet.isSimplicial
    /\ ~(Orientation(facet) > 0)
    /\ facet.hyperplane # <<>>

\* lines 110-122: entry (row, column j) is coordinate row of the point of
\* vertex j as the engine holds it (the last mole fraction dropped), for
\* every coordinate but the energy; the last row is all 1's.  The matrix is
\* stored as built: the inversion of line 123 is commented out.
BasisMatrix(pts, vertices) ==
    LET vertex_count == Len(vertices)
    IN [row \in 1..vertex_count |->
          [column \in 1..vertex_count |->
              IF row = vertex_count THEN Unit
              ELSE DropDimensions(pts[vertices[column] + 1],
                                  {Len(pts[1]) - 2})[row]]]

\* lines 108-129
NewFacet(pts, facet) ==
    [vertices |-> facet.vertices,
     basis_matrix |-> BasisMatrix(pts, facet.vertices),
     normal |-> facet.hyperplane,
     area |-> facet.area]

\* lines 67-76: the facet of a single point; its basis matrix is never set
SinglePointFacet ==
    [vertices |-> <<0>>, basis_matrix |-> <<>>, normal |-> <<0>>, area |-> 0]

\* The engine works in the dimensions left after one is dropped and throws
\* QhullError when it is handed fewer points than that dimension plus one
\* (no initial simplex); nothing in global_lower_convex_hull or run() catches it.
QhullThrows(pts) == Len(pts) < Len(pts[1])

global_lower_convex_hull(pts, facets) ==
    IF Len(pts) = 1
    THEN [thrown |-> FALSE, candidates |-> <<SinglePointFacet>>]
    ELSE IF QhullThrows(pts)
    THEN [thrown |-> TRUE, candidates |-> <<>>]
    ELSE [thrown |-> FALSE,
          candidates |-> [k \in 1..Len(SelectSeq(facets, GlobalFacetKept)) |->
                             NewFacet(pts, SelectSeq(facets, GlobalFacetKept)[k])]]

\* The facet lists the engine can report for a global hull.  A facet lists
\* its vertices from the highest point id to the lowest (the engine keeps the
\* vertices of a facet in decreasing order).
GlobalQhullResults(pts) ==
    IF Len(pts) = 1 \/ QhullThrows(pts) THEN {<<>>}
    ELSE LET dim == Len(pts[1]) - 1
         IN ListsOf({Facet(kind, vertices, area) :
                        kind \in FacetKinds(dim),
                        vertices \in {Reverse(SetToSeq(S)) : S \in VertexSets(Len(pts), dim)},
                        area \in 1..MaxArea})

\* the same lists, with every kind of facet
AllGlobalQhullResults(pts) ==
    IF Len(pts) = 1 \/ QhullThrows(pts) THEN {<<>>}
    ELSE LET dim == Len(pts[1]) - 1
         IN ListsOf({Facet(kind, vertices, area) :
                        kind \in AllFacetKinds(dim),
                        vertices \in {Reverse(SetToSeq(S)) : S \in VertexSets(Len(pts), dim)},
                        area \in 1..MaxArea})

----------------------------------------------------------------------------
(* find_tie_points, global_minimization.hpp lines 226-403 *)

\* lines 254-258: the mole fractions of conditions.xfrac followed by 1
TrialPoint(xfrac) == xfrac \o <<Unit>>

\* line 261: prod(facet.basis_matrix, trial_point); one component per row of
\* the matrix, each a sum over the columns of the matrix
TrialVector(basis_matrix, trial_point) ==
    [row \in 1..Len(basis_matrix) |->
        SeqSum([column \in 1..Len(basis_matrix[row]) |->
                   basis_matrix[row][column] * trial_point[column]])]

\* lines 263-268 and 284
FailedConditions(facet, xfrac) ==
    \E row \in 1..Len(facet.basis_matrix) :
        TrialVector(facet.basis_matrix, TrialPoint(xfrac))[row] < 0

\* lines 236-307: the positions (in candidate_facets) of the pre-candidate
\* facets, in facet order
PreCandidateFacets(facets, xfrac) ==
    SelectSeq([k \in 1..Len(facets) |-> k],
              LAMBDA k : ~FailedConditions(facets[k], xfrac))

Orderings(s) ==
    {[i \in 1..Len(s) |-> s[f[i]]] :
        f \in {g \in [1..Len(s) -> 1..Len(s)] : \A i, j \in 1..Len(s) : i # j => g[i] # g[j]}}

\* lines 311-312: std::sort by area.  std::sort is not a stable sort: facets
\* of equal area end in either order.
SortByArea(facets, positions) ==
    {q \in Orderings(positions) :
        \A i \in 1..(Len(q) - 1) : ~(facets[q[i + 1]].area < facets[q[i]].area)}

\* lines 338-347: the square of the distance between the internal
\* coordinates of two entries, in units of 1 / (Unit * Unit)
DistanceSquared(entry1, entry2) ==
    SeqSum([i \in 1..Len(entry1.internal_coordinates) |->
               (entry2.internal_coordinates[i] - entry1.internal_coordinates[i])
             * (entry2.internal_coordinates[i] - entry1.internal_coordinates[i])])

\* distance > critical_edge_length (lines 349 and 379, negated there)
LongerThanCriticalEdge(entry1, entry2) ==
    DistanceSquared(entry1, entry2) * critical_edge_length_den * critical_edge_length_den
        > critical_edge_length_num * critical_edge_length_num * Unit * Unit

\* for_each_pair (for_each_pair.hpp): every pair of two different
\* positions of a range of count elements, the earlier position first
for_each_pair(count) == {p \in (1..count) \X (1..count) : p[1] < p[2]}

\* a test that takes only a change of phase for a tie line
IsTieLine_PhaseOnly(hm, point1_id, point2_id) ==
    Entry(hm, point1_id).phase_name # Entry(hm, point2_id).phase_name

\* lines 329-355: the test of one pair
IsTieLine(hm, point1_id, point2_id) ==
    \/ Entry(hm, point1_id).phase_name # Entry(hm, point2_id).phase_name
    \/ LongerThanCriticalEdge(Entry(hm, point1_id), Entry(hm, point2_id))

\* lines 320-356: both ids of every pair that passes go into candidate_ids
ExtractCandidateIds(hm, vertices) ==
    UNION {{vertices[p[1]], vertices[p[2]]} :
              p \in {q \in for_each_pair(Len(vertices)) :
                        IsTieLine(hm, vertices[q[1]], vertices[q[2]])}}

\* lines 360-388, the merge step.  candidate_ids is a std::set: its iterators
\* are positions in the ascending sequence of ids, the position after the
\* last being end().  MergeCondition is the loop condition of the inner loop,
\* "++point2 != candidate_ids.end()", reached with the iterators point1 and
\* point2; MergeAdvance is "++point1" followed by the condition of the outer
\* loop.  Incrementing end() is undefined: the result then carries
\* undefined |-> TRUE.
RECURSIVE MergeCondition(_, _, _, _), MergeAdvance(_, _, _)
MergeCondition(hm, ids, point1, point2) ==
    LET order == SetToSeq(ids)
    IN  IF point2 > Len(order) THEN [ids |-> ids, undefined |-> TRUE]
        ELSE IF point2 + 1 > Len(order) THEN MergeAdvance(hm, ids, point1)
        ELSE LET point1_entry == Entry(hm, order[point1])
                 point2_entry == Entry(hm, order[point2 + 1])
             IN  IF point1_entry.phase_name # point2_entry.phase_name
                 THEN MergeCondition(hm, ids, point1, point2 + 1)
                 ELSE IF ~LongerThanCriticalEdge(point1_entry, point2_entry)
                 \* erase point2_id; point1 = begin(); point2 = ++begin()
                 THEN MergeCondition(hm, ids \ {order[point2 + 1]}, 1, 2)
                 ELSE MergeCondition(hm, ids, point1, point2 + 1)

MergeAdvance(hm, ids, point1) ==
    IF point1 + 1 > Cardinality(ids) THEN [ids |-> ids, undefined |-> FALSE]
    ELSE MergeCondition(hm, ids, point1 + 1, point1 + 1)

MergeTiePoints(hm, ids) ==
    IF ids = {} THEN [ids |-> ids, undefined |-> FALSE]
    ELSE MergeCondition(hm, ids, 1, 1)

\* no fallback at all
WithFallback_None(ids, final_facet) == ids

\* a fallback to the vertex of lowest id
WithFallback_LowestId(ids, final_facet) ==
    IF ids = {} THEN {SetToSeq(Range(final_facet.vertices))[1]} ELSE ids

\* lines 393-396: the single-phase fallback
WithFallback(ids, final_facet) ==
    IF ids = {} THEN {final_facet.vertices[1]} ELSE ids

\* lines 399-402: the entries of the ids, in ascending id order
Dereference(hm, ids) == [k \in 1..Cardinality(ids) |-> Entry(hm, SetToSeq(ids)[k])]

\* The whole of find_tie_points for one outcome of the sort: what it returns
\* and the locals the properties speak about.  final_facet is the position in
\* candidate_facets of the facet chosen, 0 when there is none.
FindTiePointsResult(hm, facets, xfrac, sorted) ==
    IF sorted = <<>>
    THEN [op |-> "find_tie_points", xfrac |-> xfrac,
          pre_candidate_facets |-> <<>>, final_facet |-> 0,
          candidate_ids |-> {}, merged_ids |-> {}, undefined |-> FALSE,
          candidates |-> <<>>]
    ELSE LET final_facet == facets[sorted[1]]
             candidate_ids == ExtractCandidateIds(hm, final_facet.vertices)
             merged == MergeTiePoints(hm, candidate_ids)
         IN [op |-> "find_tie_points", xfrac |-> xfrac,
             pre_candidate_facets |-> sorted, final_facet |-> sorted[1],
             candidate_ids |-> candidate_ids, merged_ids |-> merged.ids,
             undefined |-> merged.undefined,
             candidates |-> Dereference(hm, WithFallback(merged.ids, final_facet))]

----------------------------------------------------------------------------
(* run(), global_minimization.hpp lines 141-217 *)

\* The internal hulls of the phases, in phase_list order, for the sample
\* counts given: one sequence per way the hull engine can answer.
RECURSIVE PhaseHulls(_, _)
PhaseHulls(phases, counts) ==
    IF phases = <<>> THEN {<<>>}
    ELSE LET phase_points == point_sample(Head(phases), Head(counts))
             dims == DependentDimensions(Head(phases).sublattices)
         IN {<<internal_lower_convex_hull(phase_points, dims, facets)>> \o rest :
                facets \in InternalQhullResults(phase_points, dims),
                rest \in PhaseHulls(Tail(phases), Tail(counts))}

\* lines 188-203 for one phase: every hull point goes into the hull map
RECURSIVE InsertPhasePoints(_, _, _, _)
InsertPhasePoints(hm, elements, phase, phase_hull_points) ==
    IF phase_hull_points = <<>> THEN hm
    ELSE LET point == Head(phase_hull_points)
         IN InsertPhasePoints(
                insert_point(hm, phase.name, evaluate_objective(phase, point), point,
                             convert_site_fractions_to_mole_fractions(elements, phase, point)),
                elements, phase, Tail(phase_hull_points))

\* lines 156-204: the loop over phase_list
RECURSIVE InsertAllPhases(_, _, _, _)
InsertAllPhases(hm, elements, phases, hulls) ==
    IF phases = <<>> THEN hm
    ELSE InsertAllPhases(InsertPhasePoints(hm, elements, Head(phases), Head(hulls)),
                         elements, Tail(phases), Tail(hulls))

\* lines 191-202: temporary_hull_storage holds, for every entry this call
\* inserted, its mole fractions followed by its energy
TemporaryHullStorage(hm, first) ==
    [k \in 1..(Len(hm) - first) |->
        hm[first + k].global_coordinates \o <<hm[first + k].energy>>]

FacetVertexIds(facets) == UNION {Range(facets[k].vertices) : k \in 1..Len(facets)}

----------------------------------------------------------------------------
(* The systems handed to the minimizer.  One sublattice per phase, holding  *)
(* every element; samples is the sequence the sampler produces.            *)

BinarySystem ==
    [elements |-> 2,
     phases |-> <<
        [name |-> "ALPHA", sublattices |-> <<2>>, endmember_energy |-> <<0, 1>>,
         samples |-> << <<Unit, 0>>, <<Unit - 1, 1>> >>],
        [name |-> "BETA", sublattices |-> <<2>>, endmember_energy |-> <<1, 0>>,
         samples |-> << <<0, Unit>>, <<Unit \div 2, Unit \div 2>> >>] >>]

QuaternarySystem ==
    [elements |-> 4,
     phases |-> <<
        [name |-> "ALPHA", sublattices |-> <<4>>, endmember_energy |-> <<0, 1, 1, 2>>,
         samples |-> << <<10, 10, 10, 10>>, <<11, 9, 10, 10>>, <<10, 11, 9, 10>>,
                        <<Unit, 0, 0, 0>>, <<0, Unit, 0, 0>> >>] >>]

TernarySystem ==
    [elements |-> 3,
     phases |-> <<
        [name |-> "ALPHA", sublattices |-> <<3>>, endmember_energy |-> <<0, 1, 2>>,
         samples |-> << <<10, 10, 20>>, <<11, 9, 20>>, <<10, 11, 19>>, <<Unit, 0, 0>> >>] >>]

Systems == {BinarySystem, TernarySystem, QuaternarySystem}

\* conditions.xfrac: the mole fractions of all elements but the last.  The
\* code reads them as given: nothing rejects a value outside [0, 1].
Targets(elements) ==
    {[e \in 1..(elements - 1) |-> x] : x \in {0 - (Unit \div 2), Unit \div 4}}

SampleCounts(phases) ==
    {c \in [1..Len(phases) -> 1..MaxHullSize] :
        \A p \in 1..Len(phases) : c[p] <= Len(phases[p].samples)}

----------------------------------------------------------------------------
(* Spec: one GlobalMinimizer, run() and find_tie_points() called in any order *)

Init ==
    /\ hull_map = <<>>
    /\ candidate_facets = <<>>
    /\ sys \in Systems
    /\ call = [op |-> "none"]
    /\ phase_sublattices = <<>>
    /\ points = <<>>
    /\ dependent_dimensions = {}
    /\ final_points = <<>>
    /\ settings = GlobalMinimizerSettings
    /\ NoCompositionSets

Run ==
    \E counts \in SampleCounts(sys.phases) :
      /\ Len(hull_map) + SeqSum(counts) <= MaxHullSize
      /\ \E hulls \in PhaseHulls(sys.phases, counts) :
           LET inserted == InsertAllPhases(hull_map, sys.elements, sys.phases, hulls)
               temporary_hull_storage == TemporaryHullStorage(inserted, Len(hull_map))
           IN \E facets \in GlobalQhullResults(temporary_hull_storage) :
                LET hull == global_lower_convex_hull(temporary_hull_storage, facets)
                IN /\ call' = [op |-> "run", thrown |-> hull.thrown,
                               temporary_hull_storage |-> temporary_hull_storage]
                   /\ IF hull.thrown
                      THEN /\ hull_map' = inserted
                           /\ UNCHANGED candidate_facets
                      ELSE /\ candidate_facets' = hull.candidates
                           /\ hull_map' = MarkGlobalHull(inserted, FacetVertexIds(hull.candidates))
      /\ UNCHANGED <<sys, function_vars, object_vars>>

\* a sort that is done on the member candidate_facets itself
FacetsAfterSort_in_place(facets, sorted) == [k \in 1..Len(sorted) |-> facets[sorted[k]]]

\* lines 231, 235, 311-312: the facets are copied one by one into the local
\* pre_candidate_facets and the sort is done there; the member
\* candidate_facets is only read
FacetsAfterSort(facets, sorted) == facets

FindTiePoints ==
    /\ \E xfrac \in Targets(sys.elements) :
         \E sorted \in SortByArea(candidate_facets, PreCandidateFacets(candidate_facets, xfrac)) :
            /\ call' = FindTiePointsResult(hull_map, candidate_facets, xfrac, sorted)
            /\ candidate_facets' = FacetsAfterSort(candidate_facets, sorted)
    /\ UNCHANGED <<hull_map, sys, function_vars, object_vars>>

Next == Run \/ FindTiePoints

Spec == Init /\ [][Next]_vars

----------------------------------------------------------------------------
(* Inputs of the pure-function specifications *)

\* the sublattice structures handed to the hull builder
HullStructures == {<<2>>, <<1, 2>>, <<3>>, <<2, 2>>, <<2, 3>>}

\* subdivisions of the grid of a sublattice of n species
GridSubdivisions(n) == IF n <= 2 THEN 4 ELSE 2

\* site fractions of one sublattice of n species on that grid
SublatticeGrid(n) ==
    LET step == Unit \div GridSubdivisions(n)
    IN {y \in [1..n -> {k * step : k \in 0..GridSubdivisions(n)}] : SeqSum(y) = Unit}

\* site fractions of a phase: one grid point per sublattice, concatenated
RECURSIVE PhaseGrid(_)
PhaseGrid(ns) ==
    IF ns = <<>> THEN {<<>>}
    ELSE {y \o rest : y \in SublatticeGrid(Head(ns)), rest \in PhaseGrid(Tail(ns))}

\* an energy for a grid point: each site fraction strictly inside (0, 1)
\* lowers it by one (end members tie at 0)
GridEnergy(y) == 0 - Cardinality({i \in 1..Len(y) : y[i] # 0 /\ y[i] # Unit})

WithEnergy(y) == y \o <<GridEnergy(y)>>

\* the whole grid of a phase, in lexicographic order
RECURSIVE SortedGrid(_)
SortedGrid(G) ==
    IF G = {} THEN <<>>
    ELSE LET m == CHOOSE y \in G : \A z \in G : ~LexLess(z, y)
         IN <<m>> \o SortedGrid(G \ {m})

\* points of a phase of two species that refinement places next to each
\* other: neighbours are one step of 1/Unit apart
ClusterPoints ==
    << <<Unit \div 2 - 2, Unit \div 2 + 2>>, <<Unit \div 2 - 1, Unit \div 2 + 1>>,
       <<Unit \div 2, Unit \div 2>>, <<Unit \div 2 + 1, Unit \div 2 - 1>> >>

\* the point lists handed to internal_lower_convex_hull for a phase: any
\* short list of distinct grid points, the whole grid, or a refined cluster
PointLists(ns) ==
    LET G == PhaseGrid(ns)
        short == {s \in UNION {[1..k -> G] : k \in 1..MaxPoints} :
                     \A i, j \in 1..Len(s) : i # j => s[i] # s[j]}
        whole == IF Cardinality(G) <= MaxGridPoints THEN {SortedGrid(G)} ELSE {}
        cluster == IF ns = <<2>> THEN {ClusterPoints} ELSE {}
    IN {[i \in 1..Len(s) |-> WithEnergy(s[i])] : s \in short \cup whole \cup cluster}

SublatticeCounts ==
    UNION {[1..k -> 1..MaxSpecies] : k \in 1..MaxSublattices}

MinimizerIdle ==
    /\ hull_map = <<>>
    /\ candidate_facets = <<>>
    /\ sys = [elements |-> 0, phases |-> <<>>]
    /\ call = [op |-> "none"]

----------------------------------------------------------------------------
(* SpecDeps: the dependent dimensions run() computes for one phase *)

InitDeps ==
    /\ MinimizerIdle
    /\ phase_sublattices \in SublatticeCounts
    /\ points = <<>>
    /\ dependent_dimensions = {}
    /\ final_points = <<>>
    /\ settings = GlobalMinimizerSettings
    /\ NoCompositionSets

DetermineDependentDimensions ==
    /\ call.op = "none"
    /\ dependent_dimensions' = DependentDimensions(phase_sublattices)
    /\ call' = [op |-> "dependent_dimensions"]
    /\ UNCHANGED <<hull_map, candidate_facets, sys, phase_sublattices, points, final_points,
                   object_vars>>

NextDeps == DetermineDependentDimensions

SpecDeps == InitDeps /\ [][NextDeps]_vars

----------------------------------------------------------------------------
(* SpecHull: internal_lower_convex_hull on the points of one phase, with   *)
(* the dependent dimensions run() computes for it                          *)

InitHull ==
    /\ MinimizerIdle
    /\ phase_sublattices \in HullStructures
    /\ points \in PointLists(phase_sublattices)
    /\ dependent_dimensions = DependentDimensions(phase_sublattices)
    /\ final_points = <<>>
    /\ settings = GlobalMinimizerSettings
    /\ NoCompositionSets

InternalHull ==
    /\ call.op = "none"
    /\ \E facets \in InternalQhullResults(points, dependent_dimensions) :
          /\ final_points' = internal_lower_convex_hull(points, dependent_dimensions, facets)
          /\ call' = [op |-> "internal_hull", facets |-> facets,
                      path |-> InternalHullPath(points, dependent_dimensions, facets)]
    /\ UNCHANGED <<hull_map, candidate_facets, sys,
                   phase_sublattices, points, dependent_dimensions, object_vars>>

NextHull == InternalHull

SpecHull == InitHull /\ [][NextHull]_vars

----------------------------------------------------------------------------
(* SpecGlobal: global_lower_convex_hull on the points run() hands it *)

\* the point lists run() builds on an empty hull map
GlobalPointLists ==
    UNION {UNION {{TemporaryHullStorage(InsertAllPhases(<<>>, s.elements, s.phases, hulls), 0) :
                      hulls \in PhaseHulls(s.phases, counts)} :
                  counts \in SampleCounts(s.phases)} :
           s \in Systems}

InitGlobal ==
    /\ MinimizerIdle
    /\ phase_sublattices = <<>>
    /\ points \in GlobalPointLists
    /\ dependent_dimensions = {}
    /\ final_points = <<>>
    /\ settings = GlobalMinimizerSettings
    /\ NoCompositionSets

GlobalHull ==
    /\ call.op = "none"
    /\ \E facets \in AllGlobalQhullResults(points) :
          LET hull == global_lower_convex_hull(points, facets)
          IN call' = [op |-> "global_hull", facets |-> facets,
                      thrown |-> hull.thrown, candidates |-> hull.candidates]
    /\ UNCHANGED <<hull_map, candidate_facets, sys, function_vars, object_vars>>

NextGlobal == GlobalHull

SpecGlobal == InitGlobal /\ [][NextGlobal]_vars

----------------------------------------------------------------------------
(* SpecMidpoint: the midpoint-energy callback global_hull() builds,          *)
(* global_minimization.hpp lines 100-130, on the hull map run() has filled   *)

\* phase_list.find(phase_name)
FindPhase(phases, phase_name) ==
    phases[CHOOSE p \in 1..Len(phases) : phases[p].name = phase_name]

\* a callback that takes every pair of points for points of one phase
midpoint_energy_same_phase_assumed(hm, phases, point1_id, point2_id) ==
    IF point1_id = point2_id
    THEN [max |-> FALSE, twice_energy |-> 2 * Entry(hm, point1_id).energy]
    ELSE [max |-> FALSE,
          twice_energy |->
              evaluate_objective(FindPhase(phases, Entry(hm, point1_id).phase_name),
                  [i \in 1..Len(Entry(hm, point1_id).internal_coordinates) |->
                      Entry(hm, point1_id).internal_coordinates[i]
                          + Entry(hm, point2_id).internal_coordinates[i]])]

\* lines 102-130.  The result is numeric_limits<EnergyType>::max() (max) or
\* an energy, held doubled: the midpoint is (point1 + point2) / 2 and the
\* objective of the model is linear in the site fractions, so the objective
\* of the sum of the two points is twice the objective of the midpoint.
calculate_global_midpoint_energy(hm, phases, point1_id, point2_id) ==
    IF point1_id = point2_id
    THEN [max |-> FALSE, twice_energy |-> 2 * Entry(hm, point1_id).energy]
    ELSE IF Entry(hm, point1_id).phase_name # Entry(hm, point2_id).phase_name
    THEN [max |-> TRUE]
    ELSE LET midpoint == Entry(hm, point1_id).internal_coordinates
             point2 == Entry(hm, point2_id).internal_coordinates
             current_comp_set == FindPhase(phases, Entry(hm, point1_id).phase_name)
         IN [max |-> FALSE,
             twice_energy |->
                 evaluate_objective(current_comp_set,
                     [i \in 1..Len(midpoint) |-> midpoint[i] + point2[i]])]

\* the hull maps run() fills on a new minimizer
HullMaps(s) ==
    UNION {{InsertAllPhases(<<>>, s.elements, s.phases, hulls) :
               hulls \in PhaseHulls(s.phases, counts)} :
           counts \in SampleCounts(s.phases)}

InitMidpoint ==
    /\ sys \in Systems
    /\ hull_map \in HullMaps(sys)
    /\ candidate_facets = <<>>
    /\ call = [op |-> "none"]
    /\ phase_sublattices = <<>>
    /\ points = <<>>
    /\ dependent_dimensions = {}
    /\ final_points = <<>>
    /\ settings = GlobalMinimizerSettings
    /\ NoCompositionSets

MidpointEnergy ==
    /\ \E point1_id, point2_id \in 0..(Len(hull_map) - 1) :
          call' = [op |-> "midpoint_energy",
                   point1_id |-> point1_id, point2_id |-> point2_id,
                   hull_map_before |-> hull_map,
                   result |-> calculate_global_midpoint_energy(hull_map, sys.phases,
                                                               point1_id, point2_id)]
    /\ UNCHANGED <<hull_map, candidate_facets, sys, function_vars, object_vars>>

NextMidpoint == MidpointEnergy

SpecMidpoint == InitMidpoint /\ [][NextMidpoint]_vars

----------------------------------------------------------------------------
(* SpecSample: GlobalMinimizer::point_sample, global_minimization.hpp      *)
(* lines 67-75, with the settings a caller has configured                   *)

\* line 74: the settings point_sample hands to AdaptiveSimplexSample
SamplerArguments(s) ==
    [initial_subdivisions_per_axis |-> s.initial_subdivisions_per_axis,
     refinement_subdivisions_per_axis |-> s.refinement_subdivisions_per_axis,
     discard_unstable |-> s.discard_unstable]

\* AdaptiveSimplexSample: the depths its refinement can reach.  A depth it
\* is handed caps the recursion; it also stops when a level brings no
\* improvement.
SamplerDepths(arguments) ==
    IF "max_search_depth" \in DOMAIN arguments
    THEN 0..arguments.max_search_depth
    ELSE 0..MaxSamplerDepth

ConfiguredSettings ==
    {GlobalMinimizerSettings} \cup
    {[GlobalMinimizerSettings EXCEPT !.max_search_depth = d] : d \in 0..MaxSearchDepth}

InitSample ==
    /\ sys \in Systems
    /\ settings \in ConfiguredSettings
    /\ hull_map = <<>>
    /\ candidate_facets = <<>>
    /\ call = [op |-> "none"]
    /\ phase_sublattices = <<>>
    /\ points = <<>>
    /\ dependent_dimensions = {}
    /\ final_points = <<>>
    /\ NoCompositionSets

PointSample ==
    /\ \E p \in 1..Len(sys.phases) :
          \E count \in 1..Len(sys.phases[p].samples) :
             \E depth \in SamplerDepths(SamplerArguments(settings)) :
                call' = [op |-> "point_sample",
                         phase_name |-> sys.phases[p].name,
                         sampler_arguments |-> SamplerArguments(settings),
                         depth |-> depth,
                         points |-> point_sample(sys.phases[p], count)]
    /\ UNCHANGED <<hull_map, candidate_facets, sys, function_vars, object_vars>>

NextSample == PointSample

SpecSample == InitSample /\ [][NextSample]_vars

----------------------------------------------------------------------------
(* CompositionSet, compositionset.cpp.                                     *)
(*                                                                         *)
(* Names.  A variable name is the sequence of the parts its string joins   *)
(* with "_": <<phase, sublattice, species>> or <<phase, "FRAC">>; a phase  *)
(* name is a sequence of parts too.                                        *)
(*                                                                         *)
(* Trees.  An abstract syntax tree is a polynomial with integer            *)
(* coefficients: a sequence of terms [coef, vars], vars the sequence of    *)
(* the variables multiplied.                                               *)

\* const double perturbation = 1e-7: the unit in which the coordinates handed
\* to evaluate_internal_objective_gradient are counted
perturbation == 1

\* lines 41-45: the models of a composition set, in the order of their names
ModelRank(model_name) ==
    CASE model_name = "IDEAL_MIX" -> 1
      [] model_name = "IHJ_MAGNETIC" -> 2
      [] model_name = "PURE_ENERGY" -> 3
      [] model_name = "REDLICH_KISTER" -> 4

\* boost::algorithm::starts_with
starts_with(name, prefix) ==
    Len(prefix) <= Len(name) /\ SubSeq(name, 1, Len(prefix)) = prefix

FracName(cset_name) == cset_name \o <<"FRAC">>

\* x[main_indices.left.at(name)]
ValueAt(main_indices, x, name) == x[main_indices[name] + 1]

RECURSIVE Product(_)
Product(s) == IF s = <<>> THEN 1 ELSE Head(s) * Product(Tail(s))

\* process_utree(...).get<double>(): the value of a tree at x
process_utree(ast, main_indices, x) ==
    SeqSum([t \in 1..Len(ast) |->
        ast[t].coef * Product([k \in 1..Len(ast[t].vars) |->
                                  ValueAt(main_indices, x, ast[t].vars[k])])])

\* the first occurrence of a variable among the factors of a term, or 0
FirstOccurrence(term_vars, variable) ==
    IF \E k \in 1..Len(term_vars) : term_vars[k] = variable
    THEN CHOOSE k \in 1..Len(term_vars) :
            /\ term_vars[k] = variable
            /\ \A l \in 1..(k - 1) : term_vars[l] # variable
    ELSE 0

\* simplify_utree(differentiate_utree(ast, variable)): the derivative of
\* every term, terms that vanish dropped
RECURSIVE differentiate_utree(_, _)
differentiate_utree(ast, variable) ==
    IF ast = <<>> THEN <<>>
    ELSE LET term == Head(ast)
             occurrences == Cardinality({k \in 1..Len(term.vars) : term.vars[k] = variable})
         IN (IF occurrences = 0 THEN <<>>
             ELSE <<[coef |-> term.coef * occurrences,
                     vars |-> RemoveAt(term.vars, FirstOccurrence(term.vars, variable))]>>)
            \o differentiate_utree(Tail(ast), variable)

is_zero_tree(ast) == \A t \in 1..Len(ast) : ast[t].coef = 0

\* the names of main_indices (or of any name -> index map)
Names(indices) == DOMAIN indices

\* lines 57-99: the first- and second-derivative trees of one model for one
\* differentiating variable i of main_indices
DerivativeTrees(cset_name, main_indices, model_name, model_ast, i) ==
    IF ~starts_with(i, cset_name) THEN {}
    ELSE LET difftree == IF i = FracName(cset_name) THEN model_ast
                         ELSE differentiate_utree(model_ast, i)
             first == IF is_zero_tree(difftree) THEN {}
                      ELSE {[diffvars |-> <<i>>, model |-> model_name, ast |-> difftree]}
             second ==
                 {[diffvars |-> <<i, k>>, model |-> model_name,
                   ast |-> differentiate_utree(difftree, k)] :
                     k \in {n \in Names(main_indices) :
                               /\ ~(main_indices[i] > main_indices[n])
                               /\ n # FracName(cset_name)
                               /\ starts_with(n, cset_name)
                               /\ ~is_zero_tree(differentiate_utree(difftree, n))}}
         IN first \cup second

\* lines 57-99: tree_data after construction; model_asts maps the name of a
\* model to its tree
BuildTreeData(cset_name, main_indices, model_asts) ==
    UNION {DerivativeTrees(cset_name, main_indices, j, model_asts[j], i) :
              i \in Names(main_indices), j \in DOMAIN model_asts}

\* get<ast_deriv_order_index>(tree_data): the trees of one derivative order
TreesOfOrder(tree_data, order) == {e \in tree_data : Len(e.diffvars) = order}

\* the sum of the values at x of a set of trees (the += of the loops
\* over tree_data)
RECURSIVE SumOfTrees(_, _, _)
SumOfTrees(trees, main_indices, x) ==
    IF trees = {} THEN 0
    ELSE LET e == CHOOSE e \in trees : TRUE
         IN process_utree(e.ast, main_indices, x)
            + SumOfTrees(trees \ {e}, main_indices, x)

\* a gradient that weights every entry, the phase-fraction entry included
evaluate_objective_gradient_all_weighted(cset, main_indices, x) ==
    [index \in {main_indices[n] : n \in Names(main_indices)} |->
        LET diffvar == CHOOSE n \in Names(main_indices) : main_indices[n] = index
        IN ValueAt(main_indices, x, FracName(cset.cset_name))
           * SumOfTrees({e \in TreesOfOrder(cset.tree_data, 1) :
                            e.diffvars[1] = diffvar}, main_indices, x)]

\* lines 253-278: the gradient of the phase-fraction-weighted energy, as a
\* map from the index of a variable to the value
evaluate_objective_gradient(cset, main_indices, x) ==
    [index \in {main_indices[n] : n \in Names(main_indices)} |->
        LET diffvar == CHOOSE n \in Names(main_indices) : main_indices[n] = index
            diffvalue == SumOfTrees({e \in TreesOfOrder(cset.tree_data, 1) :
                                        e.diffvars[1] = diffvar}, main_indices, x)
        IN IF diffvar # FracName(cset.cset_name)
           THEN ValueAt(main_indices, x, FracName(cset.cset_name)) * diffvalue
           ELSE diffvalue]

\* lines 280-300: the gradient of the energy of the phase alone
evaluate_single_phase_objective_gradient(cset, main_indices, x) ==
    [index \in {main_indices[n] : n \in Names(main_indices)} |->
        LET diffvar == CHOOSE n \in Names(main_indices) : main_indices[n] = index
        IN SumOfTrees({e \in TreesOfOrder(cset.tree_data, 1) :
                          e.diffvars[1] = diffvar}, main_indices, x)]

\* std::list<int> searchlist ... searchlist.sort(): the index pair of a
\* second-derivative tree, smaller index first
SortedIndexPair(main_indices, diffvars) ==
    LET varindex1 == main_indices[diffvars[1]]
        varindex2 == main_indices[diffvars[2]]
    IN IF varindex1 <= varindex2 THEN <<varindex1, varindex2>>
       ELSE <<varindex2, varindex1>>

\* a Hessian that weights every entry, those of the phase fraction included
evaluate_objective_hessian_all_weighted(cset, main_indices, x) ==
    LET indices == {main_indices[n] : n \in Names(main_indices)}
    IN [key \in {<<i, j>> \in indices \X indices : i <= j} |->
          ValueAt(main_indices, x, FracName(cset.cset_name))
          * SumOfTrees({e \in TreesOfOrder(cset.tree_data, 2) :
                           SortedIndexPair(main_indices, e.diffvars) = key},
                       main_indices, x)]

\* lines 365-405: the Hessian as a map from sorted index pairs to values
evaluate_objective_hessian(cset, main_indices, x) ==
    LET indices == {main_indices[n] : n \in Names(main_indices)}
    IN [key \in {<<i, j>> \in indices \X indices : i <= j} |->
          LET weighted == {e \in TreesOfOrder(cset.tree_data, 2) :
                             /\ SortedIndexPair(main_indices, e.diffvars) = key
                             /\ FracName(cset.cset_name) \notin {e.diffvars[1], e.diffvars[2]}}
              plain == {e \in TreesOfOrder(cset.tree_data, 2) :
                             /\ SortedIndexPair(main_indices, e.diffvars) = key
                             /\ FracName(cset.cset_name) \in {e.diffvars[1], e.diffvars[2]}}
          IN SumOfTrees(plain, main_indices, x)
             + ValueAt(main_indices, x, FracName(cset.cset_name))
               * SumOfTrees(weighted, main_indices, x)]

\* lines 439-457: the index pairs for which a second-derivative tree exists
hessian_sparsity_structure(cset, main_indices) ==
    {SortedIndexPair(main_indices, e.diffvars) : e \in TreesOfOrder(cset.tree_data, 2)}

\* the sublattice numbers as they appear inside variable names
SublatticeIndexName(sublindex) == <<"0", "1", "2">>[sublindex + 1]

\* sublattice_entry::name(): phase_sublattice_species
SiteFractionName(phase_name, sublindex, species) ==
    phase_name \o <<SublatticeIndexName(sublindex), species>>

\* lines 102-130: phase_indices, numbered in sublattice order by varcount++
BuildPhaseIndices(phase_name, sublattices) ==
    LET before(s) == SeqSum([t \in 1..(s - 1) |-> Len(sublattices[t])])
        entries == {<<s, k>> : s \in 1..Len(sublattices), k \in 1..MaxSpecies}
        used == {e \in entries : e[2] <= Len(sublattices[e[1]])}
    IN [n \in {SiteFractionName(phase_name, e[1] - 1, sublattices[e[1]][e[2]]) : e \in used} |->
          LET e == CHOOSE e \in used :
                      SiteFractionName(phase_name, e[1] - 1, sublattices[e[1]][e[2]]) = n
          IN before(e[1]) + e[2] - 1]

\* lines 115-124: one SublatticeBalanceConstraint per sublattice (the sum
\* of the listed variables equals 1)
BuildConstraints(phase_name, sublattices) ==
    [s \in 1..Len(sublattices) |->
        [phase |-> phase_name, sublindex |-> s - 1,
         variables |-> [k \in 1..Len(sublattices[s]) |->
                           SiteFractionName(phase_name, s - 1, sublattices[s][k])]]]

\* lines 472-498: Atrans(variableindex, constraintindex) = 1 for every
\* variable of the sublattice of that constraint; Atrans[v][c], 1-based
BuildAtrans(phase_indices, constraints) ==
    [v \in 1..Cardinality(DOMAIN phase_indices) |->
        [c \in 1..Len(constraints) |->
            IF \E k \in 1..Len(constraints[c].variables) :
                  /\ constraints[c].variables[k] \in DOMAIN phase_indices
                  /\ phase_indices[constraints[c].variables[k]] = v - 1
            THEN 1 ELSE 0]]

\* A column of an orthogonal matrix, kept exact: the column is vec divided
\* by the square root of normsq.
UnitColumn(vec) == [vec |-> vec, normsq |-> SeqSum([k \in 1..Len(vec) |-> vec[k] * vec[k]])]

\* the rows in which column c of Atrans is 1, in increasing order
Support(Atrans, c) ==
    SetToSeq({v \in 1..Len(Atrans) : Atrans[v][c] = 1})

\* inplace_qr + recoverQ: the full QR decomposition of Atrans.  Q is
\* orthogonal, its first size2 columns span the range of Atrans and the
\* rest its orthogonal complement.  For the 0/1 columns with disjoint
\* supports that Atrans consists of: the normalised columns of Atrans, then
\* for each support the contrasts (1, ..., 1, -j, 0, ..., 0).
recoverQ(Atrans) ==
    LET size1 == Len(Atrans)
        size2 == IF size1 = 0 THEN 0 ELSE Len(Atrans[1])
        range == [c \in 1..size2 |->
                    UnitColumn([v \in 1..size1 |-> Atrans[v][c]])]
        contrast(c, j) ==
            LET support == Support(Atrans, c)
            IN UnitColumn([v \in 1..size1 |->
                   IF \E k \in 1..j : support[k] = v THEN 1
                   ELSE IF support[j + 1] = v THEN 0 - j
                   ELSE 0])
        contrasts(c) == [j \in 1..(Len(Support(Atrans, c)) - 1) |-> contrast(c, j)]
    IN range \o Flatten([c \in 1..size2 |-> contrasts(c)])

\* prod(Z, trans(Z)) with the entries over the common denominator
ProjectorOf(Z, size1) ==
    LET denominator == Product([k \in 1..Len(Z) |-> Z[k].normsq])
    IN [denominator |-> denominator,
        scaled |-> [i \in 1..size1 |-> [j \in 1..size1 |->
            SeqSum([k \in 1..Len(Z) |->
                Z[k].vec[i] * Z[k].vec[j] * (denominator \div Z[k].normsq)])]]]

\* a basis taken from the first size1 - size2 columns of Q
build_constraint_basis_matrices_leading(phase_indices, constraints) ==
    LET Atrans == BuildAtrans(phase_indices, constraints)
        Z == SubSeq(recoverQ(Atrans), 1, Len(Atrans) - Len(constraints))
    IN [constraint_null_space_matrix |-> Z,
        gradient_projector |-> ProjectorOf(Z, Len(Atrans))]

\* lines 461-525: the null-space basis Z (the columns size2 .. size1-1 of
\* Q) and the projector Z * trans(Z)
build_constraint_basis_matrices(phase_indices, constraints) ==
    LET Atrans == BuildAtrans(phase_indices, constraints)
        size1 == Len(Atrans)
        size2 == Len(constraints)
        Q == recoverQ(Atrans)
        Zcolumns == size1 - size2
        Z == SubSeq(Q, size2 + 1, size1)
    IN [constraint_null_space_matrix |-> Z,
        gradient_projector |-> ProjectorOf(Z, size1)]

\* the n smallest addresses that are free in the heap
NewAddresses(hp, n) ==
    SubSeq(SetToSeq((1..(Cardinality(DOMAIN hp) + n)) \ DOMAIN hp), 1, n)

\* the names of a model map, in the order of std::map iteration
ModelNames(model_map) ==
    LET names == DOMAIN model_map
    IN IF names = {} THEN <<>>
       ELSE CHOOSE order \in [1..Cardinality(names) -> names] :
               /\ \A a, c \in 1..Cardinality(names) : a # c => order[a] # order[c]
               /\ \A a \in 1..(Cardinality(names) - 1) :
                     ModelRank(order[a]) < ModelRank(order[a + 1])

\* lines 29-164: CompositionSet(phaseobj, pset, sublset, main_indices).
\* The models are allocated on the heap and owned by the set.
ConstructCompositionSet(phaseobj, main_indices, hp) ==
    LET names == ModelNames(phaseobj.model_asts)
        addresses == NewAddresses(hp, Len(names))
        phase_indices == BuildPhaseIndices(phaseobj.name, phaseobj.sublattices)
        cm == BuildConstraints(phaseobj.name, phaseobj.sublattices)
        basis == build_constraint_basis_matrices(phase_indices, cm)
    IN [cset |-> [cset_name |-> phaseobj.name,
                  models |-> [n \in DOMAIN phaseobj.model_asts |->
                                 addresses[CHOOSE k \in 1..Len(names) : names[k] = n]],
                  tree_data |-> BuildTreeData(phaseobj.name, main_indices, phaseobj.model_asts),
                  phase_indices |-> phase_indices,
                  cm |-> cm,
                  constraint_null_space_matrix |-> basis.constraint_null_space_matrix,
                  gradient_projector |-> basis.gradient_projector],
        heap |-> [a \in DOMAIN hp \cup Range(addresses) |->
                    IF a \in DOMAIN hp THEN hp[a]
                    ELSE [ast |-> phaseobj.model_asts[
                                     names[CHOOSE k \in 1..Len(names) : addresses[k] = a]]]]]

\* the textual replacement of every occurrence of the old phase name in a
\* variable name
RECURSIVE RenamedName(_, _, _)
RenamedName(name, old_phase_name, new_phase_name) ==
    IF name = <<>> THEN <<>>
    ELSE IF starts_with(name, old_phase_name)
         THEN new_phase_name
              \o RenamedName(SubSeq(name, Len(old_phase_name) + 1, Len(name)),
                             old_phase_name, new_phase_name)
         ELSE <<Head(name)>> \o RenamedName(Tail(name), old_phase_name, new_phase_name)

\* ast_variable_rename: every variable of a tree renamed
ast_variable_rename(ast, old_phase_name, new_phase_name) ==
    [t \in 1..Len(ast) |->
        [coef |-> ast[t].coef,
         vars |-> [k \in 1..Len(ast[t].vars) |->
                     RenamedName(ast[t].vars[k], old_phase_name, new_phase_name)]]]

\* ast_copy_with_renamed_phase of an ast_set: the differentiating
\* variables and the tree of every entry renamed
RenamedTreeData(tree_data, old_phase_name, new_phase_name) ==
    {[diffvars |-> [k \in 1..Len(e.diffvars) |->
                       RenamedName(e.diffvars[k], old_phase_name, new_phase_name)],
      model |-> e.model,
      ast |-> ast_variable_rename(e.ast, old_phase_name, new_phase_name)] : e \in tree_data}

\* ast_copy_with_renamed_phase of a name <-> index map: the names renamed,
\* the indices kept
RenamedIndices(indices, old_phase_name, new_phase_name) ==
    [n \in {RenamedName(o, old_phase_name, new_phase_name) : o \in DOMAIN indices} |->
        indices[CHOOSE o \in DOMAIN indices :
                   RenamedName(o, old_phase_name, new_phase_name) = n]]

\* lines 204-210: the constraints copied and their variables renamed
RenamedConstraints(cm, old_phase_name, new_phase_name) ==
    [c \in 1..Len(cm) |->
        [phase |-> cm[c].phase, sublindex |-> cm[c].sublindex,
         variables |-> [k \in 1..Len(cm[c].variables) |->
                          RenamedName(cm[c].variables[k], old_phase_name, new_phase_name)]]]

\* a clone that shares the models of its parent
CloneModels_shared(other_models, hp, old_phase_name, new_phase_name) ==
    [models |-> other_models, heap |-> hp]

\* lines 188-192: every model of the parent cloned with the phase renamed
\* (EnergyModel::clone_with_renamed_phase returns a new object); the
\* result is the model map of the clone and the heap after the allocations
CloneModels(other_models, hp, old_phase_name, new_phase_name) ==
    LET names == ModelNames(other_models)
        addresses == NewAddresses(hp, Len(names))
    IN [models |-> [n \in DOMAIN other_models |->
                       addresses[CHOOSE k \in 1..Len(names) : names[k] = n]],
        heap |-> [a \in DOMAIN hp \cup Range(addresses) |->
                    IF a \in DOMAIN hp THEN hp[a]
                    ELSE [ast |-> ast_variable_rename(
                                     hp[other_models[names[CHOOSE k \in 1..Len(names) :
                                                              addresses[k] = a]]].ast,
                                     old_phase_name, new_phase_name)]]]

\* a default-constructed boost::numeric::ublas::matrix<double>
EmptyMatrix == [denominator |-> 1, scaled |-> <<>>]

\* lines 168-216: CompositionSet(other, new_starting_point, new_name)
CloneCompositionSet(other, new_name, hp) ==
    LET old_phase_name == other.cset_name
        cloned == CloneModels(other.models, hp, old_phase_name, new_name)
    IN [cset |-> [cset_name |-> new_name,
                  models |-> cloned.models,
                  tree_data |-> RenamedTreeData(other.tree_data, old_phase_name, new_name),
                  phase_indices |-> RenamedIndices(other.phase_indices, old_phase_name, new_name),
                  cm |-> RenamedConstraints(other.cm, old_phase_name, new_name),
                  constraint_null_space_matrix |-> other.constraint_null_space_matrix,
                  gradient_projector |-> EmptyMatrix],
        heap |-> cloned.heap]

\* lines 217-230: the sum over the models of the value of the model's tree
cset_evaluate_objective(cset, hp, main_indices, x) ==
    LET names == ModelNames(cset.models)
    IN SeqSum([k \in 1..Len(names) |->
                  process_utree(hp[cset.models[names[k]]].ast, main_indices, x)])

\* lines 311-318: the loop of evaluate_internal_objective_gradient from
\* coordinate i (0-based) on; x_copy[i] is assigned twice and then left as
\* it is
RECURSIVE InternalGradientLoop(_, _, _, _, _)
InternalGradientLoop(cset, hp, x, x_copy, i) ==
    IF i >= Cardinality(DOMAIN cset.phase_indices) THEN <<>>
    ELSE LET lower_point == [x_copy EXCEPT ![i + 1] = x[i + 1] - perturbation]
             upper_point == [x_copy EXCEPT ![i + 1] = x[i + 1] + perturbation]
             lower_obj == cset_evaluate_objective(cset, hp, cset.phase_indices, lower_point)
             upper_obj == cset_evaluate_objective(cset, hp, cset.phase_indices, upper_point)
         IN <<[lower_point |-> lower_point, upper_point |-> upper_point,
               difference |-> upper_obj - lower_obj,
               twice_perturbation |-> 2 * perturbation]>>
            \o InternalGradientLoop(cset, hp, x, upper_point, i + 1)

\* lines 302-321: for every coordinate the two points at which the
\* objective was evaluated and the quotient gradient[i] =
\* difference / twice_perturbation, kept as its two parts
evaluate_internal_objective_gradient(cset, hp, x) ==
    InternalGradientLoop(cset, hp, x, x, 0)

----------------------------------------------------------------------------
(* The composition sets of one phase: construction, cloning, destruction   *)
(* and the evaluation functions.                                           *)

Term(coef, term_vars) == [coef |-> coef, vars |-> term_vars]

\* ALPHA with one sublattice (A, B)
BinaryPhase ==
    LET y(species) == SiteFractionName(<<"ALPHA">>, 0, species)
    IN [name |-> <<"ALPHA">>,
        sublattices |-> << <<"A", "B">> >>,
        model_asts |-> ("PURE_ENERGY" :> <<Term(3, <<y("A")>>), Term(5, <<y("B")>>)>>)
                    @@ ("REDLICH_KISTER" :> <<Term(2, <<y("A"), y("B")>>)>>)]

\* ALPHA with one sublattice (A, B, C)
TernaryPhase ==
    LET y(species) == SiteFractionName(<<"ALPHA">>, 0, species)
    IN [name |-> <<"ALPHA">>,
        sublattices |-> << <<"A", "B", "C">> >>,
        model_asts |-> ("PURE_ENERGY" :> <<Term(1, <<y("A")>>), Term(2, <<y("B")>>),
                                           Term(4, <<y("C")>>)>>)
                    @@ ("REDLICH_KISTER" :> <<Term(1, <<y("A"), y("B")>>),
                                              Term(3, <<y("B"), y("C")>>)>>)]

\* ALPHA with two sublattices (A, B)(C, D)
TwoSublatticePhase ==
    LET y(sublindex, species) == SiteFractionName(<<"ALPHA">>, sublindex, species)
    IN [name |-> <<"ALPHA">>,
        sublattices |-> << <<"A", "B">>, <<"C", "D">> >>,
        model_asts |-> ("PURE_ENERGY" :> <<Term(1, <<y(0, "A"), y(1, "C")>>),
                                           Term(2, <<y(0, "B"), y(1, "C")>>),
                                           Term(3, <<y(0, "A"), y(1, "D")>>),
                                           Term(1, <<y(0, "B"), y(1, "D")>>)>>)
                    @@ ("IDEAL_MIX" :> <<Term(1, <<y(0, "A"), y(0, "A")>>),
                                         Term(1, <<y(0, "B"), y(0, "B")>>)>>)]

CompositionSetPhases == {BinaryPhase, TernaryPhase, TwoSublatticePhase}

\* the site-fraction variables of a phase, in sublattice order
SiteFractionNames(phaseobj) ==
    LET cm == BuildConstraints(phaseobj.name, phaseobj.sublattices)
    IN Flatten([s \in 1..Len(cm) |-> cm[s].variables])

\* a name -> index map that numbers the names of a sequence from 0
IndexMapOf(names) ==
    [n \in Range(names) |-> (CHOOSE k \in 1..Len(names) : names[k] = n) - 1]

\* main_indices of the caller: the phase fraction first or last, the site
\* fractions in sublattice order, and a variable of another phase (BETA, or
\* ALPHA_B2 whose name starts with the name of this phase)
IndexMaps(phaseobj) ==
    {IndexMapOf(<<FracName(phaseobj.name)>> \o SiteFractionNames(phaseobj)
                \o << <<"BETA", "0", "A">> >>),
     IndexMapOf(SiteFractionNames(phaseobj)
                \o << <<"ALPHA", "B2", "0", "A">> >> \o <<FracName(phaseobj.name)>>)}

\* the names given to composition sets
CompositionSetNames == {<<"ALPHA">>, <<"ALPHA", "2">>}

\* the points x at which the functions are evaluated: the coordinates run
\* through the values with a stride and an offset
XPoints(n) ==
    {[k \in 1..n |-> 1 + ((stride * k + offset) % 3)] : stride \in {0, 1, 2}, offset \in {0, 1, 2}}

\* main_indices with the variables of the phase carrying the name of the
\* composition set
IndicesFor(cset_name) == RenamedIndices(sys.main_indices, sys.phaseobj.name, cset_name)

InitCompSet ==
    /\ \E phaseobj \in CompositionSetPhases :
          \E main_indices \in IndexMaps(phaseobj) :
             sys = [phaseobj |-> phaseobj, main_indices |-> main_indices]
    /\ NoCompositionSets
    /\ settings = GlobalMinimizerSettings
    /\ hull_map = <<>>
    /\ candidate_facets = <<>>
    /\ call = [op |-> "none"]
    /\ phase_sublattices = <<>>
    /\ points = <<>>
    /\ dependent_dimensions = {}
    /\ final_points = <<>>

compset_unchanged == <<hull_map, candidate_facets, sys, function_vars, settings>>

\* new CompositionSet(phaseobj, pset, sublset, main_indices)
Construct ==
    /\ sys.phaseobj.name \notin DOMAIN compsets
    /\ LET built == ConstructCompositionSet(sys.phaseobj, sys.main_indices, heap)
       IN /\ compsets' = compsets @@ (sys.phaseobj.name :> built.cset)
          /\ heap' = built.heap
          /\ call' = [op |-> "construct", cset_name |-> sys.phaseobj.name]
    /\ UNCHANGED compset_unchanged

\* new CompositionSet(other, starting_point, new_name)
Clone ==
    /\ \E other \in DOMAIN compsets :
          \E new_name \in CompositionSetNames \ DOMAIN compsets :
             LET built == CloneCompositionSet(compsets[other], new_name, heap)
             IN /\ compsets' = compsets @@ (new_name :> built.cset)
                /\ heap' = built.heap
                /\ call' = [op |-> "clone", cset_name |-> new_name, other |-> other]
    /\ UNCHANGED compset_unchanged

\* ~CompositionSet(): the models the set owns are freed with it
Destroy ==
    /\ \E name \in DOMAIN compsets :
          LET freed == {compsets[name].models[n] : n \in DOMAIN compsets[name].models}
          IN /\ compsets' = [n \in DOMAIN compsets \ {name} |-> compsets[n]]
             /\ heap' = [a \in DOMAIN heap \ freed |-> heap[a]]
             /\ call' = [op |-> "destroy", cset_name |-> name]
    /\ UNCHANGED compset_unchanged

EvaluateObjective ==
    /\ \E name \in DOMAIN compsets :
          \E x \in XPoints(Cardinality(DOMAIN sys.main_indices)) :
             call' = [op |-> "evaluate_objective", cset_name |-> name, x |-> x,
                      result |-> cset_evaluate_objective(compsets[name], heap,
                                                          IndicesFor(name), x)]
    /\ UNCHANGED <<compset_unchanged, compsets, heap>>

EvaluateObjectiveGradient ==
    /\ \E name \in DOMAIN compsets :
          \E x \in XPoints(Cardinality(DOMAIN sys.main_indices)) :
             call' = [op |-> "evaluate_objective_gradient", cset_name |-> name, x |-> x,
                      result |-> evaluate_objective_gradient(compsets[name],
                                                             IndicesFor(name), x)]
    /\ UNCHANGED <<compset_unchanged, compsets, heap>>

EvaluateSinglePhaseObjectiveGradient ==
    /\ \E name \in DOMAIN compsets :
          \E x \in XPoints(Cardinality(DOMAIN sys.main_indices)) :
             call' = [op |-> "evaluate_single_phase_objective_gradient",
                      cset_name |-> name, x |-> x,
                      result |-> evaluate_single_phase_objective_gradient(
                                     compsets[name], IndicesFor(name), x)]
    /\ UNCHANGED <<compset_unchanged, compsets, heap>>

\* evaluate_objective_hessian and hessian_sparsity_structure, called one
\* after the other on the same set
EvaluateObjectiveHessian ==
    /\ \E name \in DOMAIN compsets :
          \E x \in XPoints(Cardinality(DOMAIN sys.main_indices)) :
             call' = [op |-> "evaluate_objective_hessian", cset_name |-> name, x |-> x,
                      result |-> evaluate_objective_hessian(compsets[name],
                                                            IndicesFor(name), x),
                      sparsity |-> hessian_sparsity_structure(compsets[name],
                                                              IndicesFor(name))]
    /\ UNCHANGED <<compset_unchanged, compsets, heap>>

\* x is the caller's array; the function works on x_copy, so x after the
\* call is x before the call
EvaluateInternalObjectiveGradient ==
    /\ \E name \in DOMAIN compsets :
          \E x \in XPoints(Cardinality(DOMAIN compsets[name].phase_indices)) :
             call' = [op |-> "evaluate_internal_objective_gradient",
                      cset_name |-> name, x |-> x, x_after |-> x,
                      result |-> evaluate_internal_objective_gradient(compsets[name],
                                                                      heap, x)]
    /\ UNCHANGED <<compset_unchanged, compsets, heap>>

NextCompSet ==
    \/ Construct
    \/ Clone
    \/ Destroy
    \/ EvaluateObjective
    \/ EvaluateObjectiveGradient
    \/ EvaluateSinglePhaseObjectiveGradient
    \/ EvaluateObjectiveHessian
    \/ EvaluateInternalObjectiveGradient

SpecCompSet == InitCompSet /\ [][NextCompSet]_vars

----------------------------------------------------------------------------
(* The Redlich-Kister excess model, excess_redlichkister.cpp.              *)
(*                                                                         *)
(* A sublattice_set_view is the sequence of its entries [index, species]   *)
(* in the order of insertion.  A tree is the sequence of the terms of the  *)
(* sum it denotes; a term [vars, param, factor] is the product of the site *)
(* fractions vars and of the parameter param divided by factor.  A         *)
(* parameter is named by its constituent array: for every sublattice the   *)
(* set of its species.                                                     *)

\* utree(): the invalid tree
InvalidTree == [valid |-> FALSE, terms |-> <<>>, lookups |-> <<>>]

\* for every sublattice the set of the species a view holds on it
ConstituentsOf(subl_view, sublattice_count) ==
    [s \in 1..sublattice_count |->
        {subl_view[n].species : n \in {m \in 1..Len(subl_view) : subl_view[m].index = s - 1}}]

\* find_parameter_ast: the parameter whose constituent array is that of
\* the view, 0 if there is none
find_parameter_ast(subl_view, param_view, sublattice_count) ==
    IF ConstituentsOf(subl_view, sublattice_count) \in param_view
    THEN <<[vars |-> <<>>, param |-> ConstituentsOf(subl_view, sublattice_count), factor |-> 1]>>
    ELSE <<>>

\* lines 119-125: ret_tree / param_division_factor
DividedBy(terms, param_division_factor) ==
    [t \in 1..Len(terms) |-> [terms[t] EXCEPT !.factor = @ * param_division_factor]]

\* ("*", name, tree): the product of a site fraction and a tree
Times(name, terms) ==
    [t \in 1..Len(terms) |-> [terms[t] EXCEPT !.vars = <<name>> \o @]]

\* lines 93-230
RECURSIVE permute_site_fractions_with_interactions(_, _, _, _, _)
permute_site_fractions_with_interactions(total_view, subl_view, param_view, sublindex, param_division_factor) ==
    LET current == IF sublindex < Len(total_view) THEN total_view[sublindex + 1] ELSE <<>>
        entry(n) == [index |-> sublindex, species |-> current[n]]
        name(n) == SiteFractionName(<<"ALPHA">>, sublindex, current[n])
        below(view) == permute_site_fractions_with_interactions(
                           total_view, view, param_view, sublindex + 1,
                           param_division_factor)
        except(excluded) == SetToSeq((1..Len(current)) \ excluded)
        \* lines 153-185: the three-species interactions of i and j
        ternary(i, j) ==
            LET ks == except({i, j})
                each == [q \in 1..Len(ks) |->
                           below(subl_view \o <<entry(i), entry(j), entry(ks[q])>>)]
            IN [terms |-> Flatten([q \in 1..Len(ks) |-> Times(name(ks[q]), each[q].terms)]),
                lookups |-> Flatten([q \in 1..Len(ks) |-> each[q].lookups])]
        \* lines 143-206: the two-species interactions of i
        binary(i) ==
            LET js == except({i})
                each == [q \in 1..Len(js) |-> below(subl_view \o <<entry(i), entry(js[q])>>)]
            IN [terms |-> Flatten([q \in 1..Len(js) |->
                             Times(name(js[q]),
                                   ternary(i, js[q]).terms \o each[q].terms)]),
                lookups |-> Flatten([q \in 1..Len(js) |->
                               each[q].lookups \o ternary(i, js[q]).lookups])]
        \* lines 130-225: the product of species i and its recursive term
        single(i) ==
            LET recursive_term == below(subl_view \o <<entry(i)>>)
            IN [terms |-> Times(name(i), binary(i).terms \o recursive_term.terms),
                lookups |-> recursive_term.lookups \o binary(i).lookups]
    IN IF current = <<>>
       THEN IF Len(subl_view) = sublindex THEN InvalidTree
            ELSE [valid |-> TRUE,
                  terms |-> IF param_division_factor # 1
                            THEN DividedBy(find_parameter_ast(subl_view, param_view,
                                                              Len(total_view)),
                                           param_division_factor)
                            ELSE find_parameter_ast(subl_view, param_view, Len(total_view)),
                  lookups |-> <<subl_view>>]
       ELSE [valid |-> TRUE,
             terms |-> Flatten([i \in 1..Len(current) |-> single(i).terms]),
             lookups |-> Flatten([i \in 1..Len(current) |-> single(i).lookups])]

\* the sublattices of the phases the model is built for
RedlichKisterPhases ==
    {<< <<"A", "B">> >>, << <<"A", "B", "C">> >>,
     << <<"A", "B">>, <<"C", "D">> >>, << <<"A">>, <<"B", "C", "D">> >>}

\* the constituent arrays over the sublattices: one, two or three species
\* on every sublattice
ConstituentArrays(total_view) ==
    {c \in [1..Len(total_view) -> SUBSET {"A", "B", "C", "D"}] :
        \A s \in 1..Len(total_view) :
           /\ c[s] \subseteq Range(total_view[s])
           /\ Cardinality(c[s]) \in 1..3}

\* the parameter sets of a phase: at most MaxParameters parameters
ParameterSets(total_view) ==
    {ps \in SUBSET ConstituentArrays(total_view) : Cardinality(ps) <= MaxParameters}

DivisionFactors == {1, 2}

InitRK ==
    /\ \E total_view \in RedlichKisterPhases :
          \E param_view \in ParameterSets(total_view) :
             \E param_division_factor \in DivisionFactors :
                sys = [total_view |-> total_view, param_view |-> param_view,
                       param_division_factor |-> param_division_factor]
    /\ hull_map = <<>>
    /\ candidate_facets = <<>>
    /\ call = [op |-> "none"]
    /\ phase_sublattices = <<>>
    /\ points = <<>>
    /\ dependent_dimensions = {}
    /\ final_points = <<>>
    /\ settings = GlobalMinimizerSettings
    /\ NoCompositionSets

\* line 87: model_ast = permute_site_fractions_with_interactions(ssv,
\* sublattice_set_view(), psv_subview, 0)
BuildRedlichKister ==
    /\ call.op = "none"
    /\ LET built == permute_site_fractions_with_interactions(
                        sys.total_view, <<>>, sys.param_view, 0,
                        sys.param_division_factor)
       IN call' = [op |-> "permute_site_fractions_with_interactions",
                   model_ast |-> built.terms, valid |-> built.valid,
                   lookups |-> built.lookups]
    /\ UNCHANGED <<hull_map, candidate_facets, sys, function_vars, object_vars>>

NextRK == BuildRedlichKister

SpecRK == InitRK /\ [][NextRK]_vars

----------------------------------------------------------------------------
(* The merge loop of find_tie_points, lines 360-388, one step at a time.   *)
(* call holds the locals: ids is candidate_ids, point1 and point2 are the  *)
(* iterators as positions in ascending id order (the position after the   *)
(* last is end()), compared the pairs of ids whose entries were read.      *)

\* internal coordinates (v, Unit - v): one step of v apart is within
\* critical_edge_length, two steps are not
MergeCoordinates == {<<v, Unit - v>> : v \in 0..2}

\* hull maps of MaxCandidates entries with any phases and coordinates
MergeHullMaps ==
    {[k \in 1..MaxCandidates |->
         [id |-> k - 1, phase_name |-> phase_names[k], energy |-> 0,
          internal_coordinates |-> coordinates[k],
          global_coordinates |-> <<>>, global_hull_status |-> TRUE]] :
       phase_names \in [1..MaxCandidates -> {"ALPHA", "BETA"}],
       coordinates \in [1..MaxCandidates -> MergeCoordinates]}

InitMerge ==
    /\ hull_map \in MergeHullMaps
    /\ \E candidate_ids \in SUBSET (0..(MaxCandidates - 1)) :
          call = [op |-> "merge", candidate_ids |-> candidate_ids, ids |-> candidate_ids,
                  point1 |-> 1, point2 |-> 1, pc |-> "outer_condition", compared |-> {}]
    /\ candidate_facets = <<>>
    /\ sys = [elements |-> 0, phases |-> <<>>]
    /\ phase_sublattices = <<>>
    /\ points = <<>>
    /\ dependent_dimensions = {}
    /\ final_points = <<>>
    /\ settings = GlobalMinimizerSettings
    /\ NoCompositionSets

merge_unchanged == <<hull_map, candidate_facets, sys, function_vars, object_vars>>

\* line 360: point1 != candidate_ids.end(); then point2 = point1
MergeOuterCondition ==
    /\ call.pc = "outer_condition"
    /\ call' = IF call.point1 > Cardinality(call.ids)
               THEN [call EXCEPT !.pc = "done"]
               ELSE [call EXCEPT !.point2 = call.point1, !.pc = "inner_condition"]
    /\ UNCHANGED merge_unchanged

\* line 361: ++point2 != candidate_ids.end(); when it fails, ++point1
\* (line 360).  Incrementing end() is undefined.
MergeInnerCondition ==
    /\ call.pc = "inner_condition"
    /\ call' = IF call.point2 > Cardinality(call.ids)
               THEN [call EXCEPT !.pc = "undefined"]
               ELSE IF call.point2 + 1 > Cardinality(call.ids)
               THEN [call EXCEPT !.point2 = call.point2 + 1,
                                 !.point1 = call.point1 + 1, !.pc = "outer_condition"]
               ELSE [call EXCEPT !.point2 = call.point2 + 1, !.pc = "body"]
    /\ UNCHANGED merge_unchanged

\* lines 362-386: the body of the inner loop
MergeBody ==
    /\ call.pc = "body"
    /\ LET order == SetToSeq(call.ids)
           point1_id == order[call.point1]
           point2_id == order[call.point2]
           point1_entry == Entry(hull_map, point1_id)
           point2_entry == Entry(hull_map, point2_id)
           read == [call EXCEPT !.compared = @ \cup {{point1_id, point2_id}},
                                !.pc = "inner_condition"]
       IN call' = IF point1_entry.phase_name # point2_entry.phase_name THEN read
                  ELSE IF ~LongerThanCriticalEdge(point1_entry, point2_entry)
                  THEN [read EXCEPT !.ids = @ \ {point2_id}, !.point1 = 1, !.point2 = 2]
                  ELSE read
    /\ UNCHANGED merge_unchanged

NextMerge == MergeOuterCondition \/ MergeInnerCondition \/ MergeBody

SpecMerge == InitMerge /\ [][NextMerge]_vars

\* the loop runs on: every step that can be taken is taken
SpecMergeLive == SpecMerge /\ WF_vars(NextMerge)

----------------------------------------------------------------------------
(* Properties of find_tie_points (specification Spec) *)

Found == call.op = "find_tie_points"

\* find_tie_points chose a facet
Resolved == Found /\ call.final_facet # 0

FinalFacet == candidate_facets[call.final_facet]

SamePhase(entry1, entry2) == entry1.phase_name = entry2.phase_name

\* C1: after tie-point extraction no two returned entries of the same phase
\* lie within critical_edge_length of each other (internal coordinates).
C1_NoClosePairReturned ==
    Found =>
        \A i, j \in 1..Len(call.candidates) :
            (i < j /\ SamePhase(call.candidates[i], call.candidates[j]))
                => LongerThanCriticalEdge(call.candidates[i], call.candidates[j])

\* the vertex matrix of a facet: column j holds the mole fractions (all but
\* the last) of vertex j, followed by 1
VertexMatrix(hm, facet) ==
    [row \in 1..Len(facet.vertices) |->
        [column \in 1..Len(facet.vertices) |->
            IF row = Len(facet.vertices) THEN Unit
            ELSE Entry(hm, facet.vertices[column]).global_coordinates[row]]]

\* C2: for the resolved facet, basis_matrix * target has no negative
\* component, its components sum to 1, and they are the barycentric
\* coordinates of the target in the facet (the vertex matrix times them gives
\* the target back).
C2_FacetEnclosure ==
    Resolved =>
        LET trial_vector == TrialVector(FinalFacet.basis_matrix, TrialPoint(call.xfrac))
        IN /\ \A row \in 1..Len(trial_vector) : trial_vector[row] >= 0
           /\ SeqSum(trial_vector) = Unit * Unit
           /\ TrialVector(VertexMatrix(hull_map, FinalFacet), trial_vector)
                = [row \in 1..Len(trial_vector) |-> Unit * Unit * TrialPoint(call.xfrac)[row]]

\* C3: find_tie_points returns an empty list exactly when no stored facet
\* encloses the target (every facet has a negative component of
\* basis_matrix * target), the empty facet list included.
C3_EmptyIffNoEnclosingFacet ==
    Found =>
        ((call.candidates = <<>>)
            <=> \A k \in 1..Len(candidate_facets) :
                    FailedConditions(candidate_facets[k], call.xfrac))

C3_Witness ==
    /\ Found
    /\ candidate_facets # <<>>
    /\ call.candidates = <<>>

\* the first facet, in facet-list order, among the enclosing facets of
\* smallest area
FirstSmallestEnclosing(facets, xfrac) ==
    LET enclosing == {k \in 1..Len(facets) : ~FailedConditions(facets[k], xfrac)}
        smallest == {k \in enclosing : \A l \in enclosing : facets[k].area <= facets[l].area}
    IN CHOOSE k \in smallest : \A l \in smallest : k <= l

\* C4: the facet used is the enclosing facet of smallest area and, among
\* several of that area, the first in facet-list order.
C4_FirstSmallestFacetUsed ==
    Resolved => FinalFacet = candidate_facets[FirstSmallestEnclosing(candidate_facets, call.xfrac)]

\* C5: a vertex of the winning facet is accepted exactly when the facet has
\* another vertex that is of a different phase or, being of the same phase,
\* lies farther than critical_edge_length from it.
C5_VertexPairExtraction ==
    Resolved =>
        call.candidate_ids =
            {v \in Range(FinalFacet.vertices) :
                \E w \in Range(FinalFacet.vertices) :
                    /\ w # v
                    /\ \/ ~SamePhase(Entry(hull_map, v), Entry(hull_map, w))
                       \/ LongerThanCriticalEdge(Entry(hull_map, v), Entry(hull_map, w))}

\* some vertices of the facet are accepted and one, close to all the others
\* of its phase, is not
C5_Witness ==
    /\ Resolved
    /\ call.candidate_ids # {}
    /\ Range(FinalFacet.vertices) \ call.candidate_ids # {}

\* C6: when the extraction accepts no vertex, exactly one entry is returned,
\* that of the first vertex of the winning facet.
C6_SinglePhaseFallback ==
    (Resolved /\ call.candidate_ids = {})
        => call.candidates = <<Entry(hull_map, FinalFacet.vertices[1])>>

C6_Witness ==
    /\ Resolved
    /\ call.candidate_ids = {}
    /\ Len(FinalFacet.vertices) > 1
    /\ call.candidates = <<Entry(hull_map, FinalFacet.vertices[1])>>

----------------------------------------------------------------------------
(* Properties of the hull builders *)

\* the site fractions of input point i of the internal hull
InputSiteFractions(i) == PopBack(points[i])

\* C7: on the degenerate paths (a single point, or no more points than
\* dimensions) the internal hull builder returns the site fractions of every
\* input point unchanged.
C7_DegenerateReturnsInput ==
    (call.op = "internal_hull" /\ call.path \in {"single", "few"})
        => final_points = [i \in 1..Len(points) |-> InputSiteFractions(i)]

\* the site fractions of sublattice sl (1-based) of a point of a phase
SublatticeOf(ns, y, sl) ==
    SubSeq(y, SeqSum(SubSeq(ns, 1, sl - 1)) + 1, SeqSum(SubSeq(ns, 1, sl)))

Feasible(ns, y) ==
    /\ Len(y) = SeqSum(ns)
    /\ \A i \in 1..Len(y) : y[i] >= 0
    /\ \A sl \in 1..Len(ns) : SeqSum(SublatticeOf(ns, y, sl)) = Unit

\* C8: every point the internal hull builder returns is feasible: on each
\* sublattice the site fractions sum to 1 and none is negative.
C8_InternalHullFeasible ==
    call.op = "internal_hull"
        => \A i \in 1..Len(final_points) : Feasible(phase_sublattices, final_points[i])

\* C9: the dependent dimensions are the indices of the last species of each
\* sublattice: n_0 - 1, n_0 + n_1 - 1, ...
C9_DependentDimensionsAreLastSpecies ==
    call.op = "dependent_dimensions"
        => dependent_dimensions =
              {SeqSum(SubSeq(phase_sublattices, 1, k)) - 1 : k \in 1..Len(phase_sublattices)}

C9_Witness ==
    /\ call.op = "dependent_dimensions"
    /\ phase_sublattices = <<2, 2>>
    /\ dependent_dimensions = {1, 3}

\* C10: handed fewer than D + 1 points (D the number of elements), the
\* global hull builder returns an empty facet list.
C10_DegenerateGlobalHullIsEmpty ==
    (call.op = "run" /\ Len(call.temporary_hull_storage) < sys.elements + 1)
        => (~call.thrown /\ candidate_facets = <<>>)

----------------------------------------------------------------------------
(* Properties of global_lower_convex_hull (specification SpecGlobal) *)

GlobalHullReturned == call.op = "global_hull" /\ ~call.thrown

\* a reported facet of the lower hull: defined, good, simplicial, with a
\* hyperplane whose last coefficient is not positive
ReportedLower(facet) ==
    /\ facet.isDefined
    /\ facet.isGood
    /\ facet.isSimplicial
    /\ facet.hyperplane # <<>>
    /\ facet.hyperplane[Len(facet.hyperplane)] <= 0

\* C11: every facet global_lower_convex_hull returns has a final normal
\* coordinate <= 0, and the facets it returns are the reported facets of the
\* lower hull, in their order: a reported facet with a positive final
\* coordinate, with no hyperplane, undefined or not simplicial is not returned.
C11_OnlyLowerFacetsReturned ==
    GlobalHullReturned =>
        /\ \A k \in 1..Len(call.candidates) :
              /\ call.candidates[k].normal # <<>>
              /\ call.candidates[k].normal[Len(call.candidates[k].normal)] <= 0
        /\ Len(points) > 1 =>
              LET lower == SelectSeq(call.facets, ReportedLower)
              IN /\ Len(call.candidates) = Len(lower)
                 /\ \A k \in 1..Len(lower) :
                       /\ call.candidates[k].vertices = lower[k].vertices
                       /\ call.candidates[k].normal = lower[k].hyperplane
                       /\ call.candidates[k].area = lower[k].area

\* an upper facet and a lower facet are reported, only the lower is returned
C11_Witness ==
    /\ GlobalHullReturned
    /\ Len(call.facets) = 2
    /\ call.facets[1].isSimplicial /\ call.facets[1].isDefined /\ call.facets[1].isGood
    /\ call.facets[1].hyperplane # <<>>
    /\ call.facets[1].hyperplane[Len(call.facets[1].hyperplane)] > 0
    /\ ReportedLower(call.facets[2])
    /\ Len(call.candidates) = 1

----------------------------------------------------------------------------
(* Properties of run() (specification Spec) *)

RunCompleted == call.op = "run" /\ ~call.thrown

\* C12: after run() completes, an entry of the hull map has its flag set
\* exactly when its id is a vertex of a facet of the facet list; every entry
\* find_tie_points returns has the flag set.
C12_FlagIffFacetVertex ==
    /\ RunCompleted =>
          \A k \in 1..Len(hull_map) :
              hull_map[k].global_hull_status
                  <=> hull_map[k].id \in FacetVertexIds(candidate_facets)
    /\ Found =>
          \A k \in 1..Len(call.candidates) : call.candidates[k].global_hull_status

\* the same for the first run() of a minimizer only
C12_FlagIffFacetVertexFirstRun ==
    /\ (RunCompleted /\ Len(hull_map) = Len(call.temporary_hull_storage)) =>
          \A k \in 1..Len(hull_map) :
              hull_map[k].global_hull_status
                  <=> hull_map[k].id \in FacetVertexIds(candidate_facets)
    /\ Found =>
          \A k \in 1..Len(call.candidates) : call.candidates[k].global_hull_status

----------------------------------------------------------------------------
(* Properties of the tie-line filter of internal_lower_convex_hull          *)
(* (specification SpecHull)                                                 *)

\* twice the energy (GridEnergy) of the midpoint of two points
TwiceMidpointEnergy(point1, point2) ==
    2 * (0 - Cardinality({i \in 1..(Len(point1) - 1) :
                             point1[i] + point2[i] \notin {0, 2 * Unit}}))

\* convex_hull.cpp line 140: (true_energy - lever_rule_energy) /
\* fabs(lever_rule_energy) < coplanarity_allowance, with both energies doubled
Coplanar(point1, point2) ==
    LET twice_lever_rule_energy == point1[Len(point1)] + point2[Len(point2)]
        twice_true_energy == TwiceMidpointEnergy(point1, point2)
        magnitude == IF twice_lever_rule_energy < 0 THEN 0 - twice_lever_rule_energy
                     ELSE twice_lever_rule_energy
    IN 1000 * (twice_true_energy - twice_lever_rule_energy) < magnitude

\* the edge between two points is longer than critical_edge_length
LongEdge(point1, point2) ==
    LET d2 == SeqSum([i \in 1..(Len(point1) - 1) |->
                        (point1[i] - point2[i]) * (point1[i] - point2[i])])
    IN d2 * critical_edge_length_den * critical_edge_length_den
         > critical_edge_length_num * critical_edge_length_num * Unit * Unit

\* C18: the internal hull builder returns a vertex of a lower-hull facet only
\* if the facet has an edge at that vertex that is longer than
\* critical_edge_length and not coplanar.
C18_OnlyTieLineVerticesReturned ==
    (call.op = "internal_hull" /\ call.path = "hull") =>
        \A k \in 1..Len(final_points) :
            \E f \in 1..Len(call.facets) :
                /\ InternalFacetKept(call.facets[f])
                /\ \E u, v \in Range(call.facets[f].vertices) :
                      /\ u # v
                      /\ final_points[k] = PopBack(points[u + 1])
                      /\ LongEdge(points[u + 1], points[v + 1])
                      /\ ~Coplanar(points[u + 1], points[v + 1])

----------------------------------------------------------------------------
(* Properties of the midpoint-energy callback (specification SpecMidpoint) *)

MidpointCalled == call.op = "midpoint_energy"

\* twice the objective of a phase at the average of two points
TwiceObjectiveAtAverage(phase, y1, y2) ==
    SeqSum([i \in 1..Len(y1) |-> phase.endmember_energy[i] * (y1[i] + y2[i])])

\* C19: for ids of entries of different phases the callback returns the
\* largest value there is; for distinct ids of one phase the objective of
\* that phase at the average of the internal coordinates; for equal ids the
\* stored energy of the entry; the hull map is left as it was.
C19_MidpointEnergy ==
    MidpointCalled =>
        LET entry1 == Entry(hull_map, call.point1_id)
            entry2 == Entry(hull_map, call.point2_id)
        IN /\ hull_map = call.hull_map_before
           /\ call.point1_id = call.point2_id
                 => call.result = [max |-> FALSE, twice_energy |-> 2 * entry1.energy]
           /\ (call.point1_id # call.point2_id /\ entry1.phase_name # entry2.phase_name)
                 => call.result = [max |-> TRUE]
           /\ (call.point1_id # call.point2_id /\ entry1.phase_name = entry2.phase_name)
                 => call.result =
                       [max |-> FALSE,
                        twice_energy |->
                            TwiceObjectiveAtAverage(
                                FindPhase(sys.phases, entry1.phase_name),
                                entry1.internal_coordinates, entry2.internal_coordinates)]

\* two distinct entries of one phase with different energies: the midpoint
\* energy lies between them
C19_Witness ==
    /\ MidpointCalled
    /\ call.point1_id # call.point2_id
    /\ ~call.result.max
    /\ call.result.twice_energy # 2 * Entry(hull_map, call.point1_id).energy
    /\ call.result.twice_energy # 2 * Entry(hull_map, call.point2_id).energy

----------------------------------------------------------------------------
(* Properties of point_sample (specification SpecSample) *)

\* C20: the configured max_search_depth reaches the sampler, and no point is
\* refined deeper than max_search_depth levels.
C20_SearchDepthCapsSampler ==
    call.op = "point_sample" =>
        /\ "max_search_depth" \in DOMAIN call.sampler_arguments
        /\ call.sampler_arguments.max_search_depth = settings.max_search_depth
        /\ call.depth <= settings.max_search_depth

----------------------------------------------------------------------------
(* Properties of the composition set (specification SpecCompSet) *)

\* the energy of the phase at x, from the models of the phase description
PhaseEnergy(x) ==
    LET names == ModelNames(sys.phaseobj.model_asts)
    IN SeqSum([k \in 1..Len(names) |->
                  process_utree(sys.phaseobj.model_asts[names[k]], sys.main_indices, x)])

\* x moved by delta along the coordinate with the given index
Moved(x, index, delta) == [x EXCEPT ![index + 1] = @ + delta]

\* dG/dx_index at x: the models are polynomials of degree two at most, for
\* which the central difference gives the derivative exactly
EnergyDerivative(x, index) ==
    (PhaseEnergy(Moved(x, index, 1)) - PhaseEnergy(Moved(x, index, 0 - 1))) \div 2

\* d2G/dx_i dx_j at x, by the second central difference
EnergySecondDerivative(x, i, j) ==
    (PhaseEnergy(Moved(Moved(x, i, 1), j, 1)) - PhaseEnergy(Moved(Moved(x, i, 1), j, 0 - 1))
     - PhaseEnergy(Moved(Moved(x, i, 0 - 1), j, 1))
     + PhaseEnergy(Moved(Moved(x, i, 0 - 1), j, 0 - 1))) \div 4

FracIndex == sys.main_indices[FracName(sys.phaseobj.name)]

AllIndices == {sys.main_indices[n] : n \in DOMAIN sys.main_indices}

\* C13: evaluate_objective_gradient returns, for every index of the
\* name -> index map, x[_FRAC] times the sum over the models of dModel/dv,
\* and for _FRAC the unweighted sum of the model values;
\* evaluate_single_phase_objective_gradient returns the same sums without the
\* weight.  An index without a derivative tree has the entry 0.
C13_GradientWeighting ==
    /\ call.op = "evaluate_objective_gradient" =>
          /\ DOMAIN call.result = AllIndices
          /\ \A index \in AllIndices :
                call.result[index] =
                    IF index = FracIndex THEN PhaseEnergy(call.x)
                    ELSE call.x[FracIndex + 1] * EnergyDerivative(call.x, index)
    /\ call.op = "evaluate_single_phase_objective_gradient" =>
          /\ DOMAIN call.result = AllIndices
          /\ \A index \in AllIndices :
                call.result[index] =
                    IF index = FracIndex THEN PhaseEnergy(call.x)
                    ELSE EnergyDerivative(call.x, index)

\* a gradient with a weighted non-zero entry, an unweighted phase-fraction
\* entry and a zero entry of a variable without a derivative tree
C13_Witness ==
    /\ call.op = "evaluate_objective_gradient"
    /\ call.x[FracIndex + 1] = 3
    /\ call.result[FracIndex] # 0
    /\ \E index \in AllIndices \ {FracIndex} :
          /\ call.result[index] # 0
          /\ call.result[index] = 3 * EnergyDerivative(call.x, index)
    /\ \E index \in AllIndices \ {FracIndex} : call.result[index] = 0

\* the second derivative of x[_FRAC] * G with respect to the variables of
\* a key, without the weight x[_FRAC] for a key of two site fractions
UnweightedSecondDerivative(x, key) ==
    IF key[1] = FracIndex /\ key[2] = FracIndex THEN 0
    ELSE IF key[1] = FracIndex THEN EnergyDerivative(x, key[2])
    ELSE IF key[2] = FracIndex THEN EnergyDerivative(x, key[1])
    ELSE EnergySecondDerivative(x, key[1], key[2])

\* C14: every key (i, j) of the map evaluate_objective_hessian returns has
\* i <= j; an entry of the sparsity structure that involves _FRAC is the
\* unweighted second-derivative value, any other one is that value times
\* x[_FRAC]; every pair of hessian_sparsity_structure is a key, and a key
\* outside the sparsity structure has the value 0.
C14_HessianWeighting ==
    call.op = "evaluate_objective_hessian" =>
        /\ \A key \in DOMAIN call.result : key[1] <= key[2]
        /\ call.sparsity \subseteq DOMAIN call.result
        /\ \A key \in DOMAIN call.result \ call.sparsity : call.result[key] = 0
        /\ \A key \in call.sparsity :
              call.result[key] =
                  IF FracIndex \in {key[1], key[2]}
                  THEN UnweightedSecondDerivative(call.x, key)
                  ELSE call.x[FracIndex + 1] * UnweightedSecondDerivative(call.x, key)

\* a Hessian with a weighted non-zero entry, an unweighted non-zero entry of
\* the phase fraction, and a key outside the sparsity structure
C14_Witness ==
    /\ call.op = "evaluate_objective_hessian"
    /\ call.x[FracIndex + 1] = 3
    /\ \E key \in call.sparsity :
          /\ FracIndex \notin {key[1], key[2]}
          /\ call.result[key] # 0
    /\ \E key \in call.sparsity :
          /\ FracIndex \in {key[1], key[2]}
          /\ call.result[key] # 0
    /\ DOMAIN call.result \ call.sparsity # {}

\* the energy of the phase at a point given in the numbering of
\* phase_indices, from the models of the phase description
LocalPhaseEnergy(x) ==
    LET names == ModelNames(sys.phaseobj.model_asts)
        local_indices == BuildPhaseIndices(sys.phaseobj.name, sys.phaseobj.sublattices)
    IN SeqSum([k \in 1..Len(names) |->
                  process_utree(sys.phaseobj.model_asts[names[k]], local_indices, x)])

\* C15: evaluate_internal_objective_gradient is a central difference per
\* coordinate: for every coordinate i the two points at which the objective
\* is evaluated are x - h*e_i and x + h*e_i (equal to x in every other
\* coordinate), the result is the difference of the objective at these two
\* points over 2h, and the caller's x is unchanged.
C15_CentralDifferencePerCoordinate ==
    call.op = "evaluate_internal_objective_gradient" =>
        /\ call.x_after = call.x
        /\ Len(call.result) = Len(call.x)
        /\ \A i \in 1..Len(call.result) :
              /\ call.result[i].lower_point = Moved(call.x, i - 1, 0 - perturbation)
              /\ call.result[i].upper_point = Moved(call.x, i - 1, perturbation)
              /\ call.result[i].twice_perturbation = 2 * perturbation
              /\ call.result[i].difference =
                     LocalPhaseEnergy(Moved(call.x, i - 1, perturbation))
                     - LocalPhaseEnergy(Moved(call.x, i - 1, 0 - perturbation))

\* the part of C15 that the code keeps: the first coordinate is
\* differenced at x - h*e_0 and x + h*e_0, and x is unchanged
C15_FirstCoordinateOnly ==
    call.op = "evaluate_internal_objective_gradient" =>
        /\ call.x_after = call.x
        /\ Len(call.result) = Len(call.x)
        /\ call.result[1].lower_point = Moved(call.x, 0, 0 - perturbation)
        /\ call.result[1].upper_point = Moved(call.x, 0, perturbation)
        /\ \A i \in 2..Len(call.result) :
              \A j \in 1..(i - 1) :
                 /\ call.result[i].lower_point[j] = call.x[j] + perturbation
                 /\ call.result[i].upper_point[j] = call.x[j] + perturbation

\* the composition set the first constructor builds for the phase
OriginalSet == ConstructCompositionSet(sys.phaseobj, sys.main_indices, <<>>).cset

\* the addresses of the models a composition set owns
ModelAddresses(cset) == {cset.models[n] : n \in DOMAIN cset.models}

\* C16: a composition set made by the clone constructor gives, at every
\* point, the objective and the gradients of the original at the
\* corresponding point (variables renamed, indices kept), and its models
\* are copies of its own: no model is shared between two sets, so destroying
\* one set leaves every model of the others alive.
C16_CloneEquivalence ==
    /\ call.op = "evaluate_objective" => call.result = PhaseEnergy(call.x)
    /\ call.op = "evaluate_objective_gradient" =>
          call.result = evaluate_objective_gradient(OriginalSet, sys.main_indices, call.x)
    /\ call.op = "evaluate_single_phase_objective_gradient" =>
          call.result = evaluate_single_phase_objective_gradient(OriginalSet,
                                                                 sys.main_indices, call.x)
    /\ \A name \in DOMAIN compsets :
          /\ ModelAddresses(compsets[name]) \subseteq DOMAIN heap
          /\ \A n \in DOMAIN compsets[name].models :
                heap[compsets[name].models[n]].ast =
                    ast_variable_rename(sys.phaseobj.model_asts[n], sys.phaseobj.name, name)
          /\ \A other \in DOMAIN compsets \ {name} :
                ModelAddresses(compsets[name]) \cap ModelAddresses(compsets[other]) = {}

\* the clone ALPHA_2 evaluated after its original was destroyed
C16_Witness ==
    /\ call.op \in {"evaluate_objective", "evaluate_objective_gradient"}
    /\ call.cset_name = <<"ALPHA", "2">>
    /\ DOMAIN compsets = {<<"ALPHA", "2">>}
    /\ IF call.op = "evaluate_objective" THEN call.result # 0
       ELSE \E index \in AllIndices \ {FracIndex} : call.result[index] # 0

DotProduct(u, v) == SeqSum([k \in 1..Len(u) |-> u[k] * v[k]])

\* the constraint Jacobian A of the phase: one row per sublattice, 1 in the
\* columns of the variables of that sublattice (numbered in sublattice
\* order), 0 elsewhere
ConstraintJacobian ==
    LET sublattices == sys.phaseobj.sublattices
        first(s) == SeqSum([t \in 1..(s - 1) |-> Len(sublattices[t])]) + 1
        n == SeqSum([t \in 1..Len(sublattices) |-> Len(sublattices[t])])
    IN [s \in 1..Len(sublattices) |->
          [v \in 1..n |-> IF first(s) <= v /\ v < first(s) + Len(sublattices[s])
                          THEN 1 ELSE 0]]

\* C17: the stored null-space basis Z of a composition set has n - m
\* columns (n variables, m constraints), A * Z = 0 for the constraint
\* Jacobian A, and the columns of Z are pairwise orthogonal and of norm 1
\* (a column is vec / sqrt(normsq); it has norm 1 when normsq = vec . vec).
C17_ConstraintNullSpace ==
    \A name \in DOMAIN compsets :
        LET Z == compsets[name].constraint_null_space_matrix
            A == ConstraintJacobian
            n == Cardinality(DOMAIN compsets[name].phase_indices)
            m == Len(compsets[name].cm)
        IN /\ m = Len(A)
           /\ Len(Z) = n - m
           /\ \A k \in 1..Len(Z) :
                 /\ Len(Z[k].vec) = n
                 /\ \A c \in 1..m : DotProduct(A[c], Z[k].vec) = 0
                 /\ Z[k].normsq = DotProduct(Z[k].vec, Z[k].vec)
                 /\ Z[k].normsq > 0
                 /\ \A l \in 1..Len(Z) : l # k => DotProduct(Z[k].vec, Z[l].vec) = 0

\* a set just constructed whose basis has two columns, for one or for two
\* constraints
C17_Witness ==
    /\ call.op = "construct"
    /\ \E name \in DOMAIN compsets :
          /\ Len(compsets[name].constraint_null_space_matrix) = 2
          /\ Len(compsets[name].cm) \in {1, 2}
          /\ \A k \in 1..2 :
                \E v \in 1..Cardinality(DOMAIN compsets[name].phase_indices) :
                   compsets[name].constraint_null_space_matrix[k].vec[v] # 0

\* the indices of the site-fraction variables of the phase in main_indices
SiteFractionIndices ==
    {sys.main_indices[n] : n \in DOMAIN BuildPhaseIndices(sys.phaseobj.name,
                                                           sys.phaseobj.sublattices)}

\* a pair of indices, smaller index first
KeyOf(i, j) == IF i <= j THEN <<i, j>> ELSE <<j, i>>

\* C29: the Hessian does not depend on the numbering of the variables: for
\* every site fraction v with a non-zero dG/dv the pair {_FRAC, v} is in
\* hessian_sparsity_structure and its entry in evaluate_objective_hessian is
\* the unweighted dG/dv, whether _FRAC is numbered before or after v; and
\* every pair {u, v} of site fractions has one entry, the weighted second
\* derivative.
C29_HessianIndependentOfNumbering ==
    call.op = "evaluate_objective_hessian" =>
        /\ \A v \in SiteFractionIndices :
              EnergyDerivative(call.x, v) # 0 =>
                 /\ KeyOf(FracIndex, v) \in call.sparsity
                 /\ call.result[KeyOf(FracIndex, v)] = EnergyDerivative(call.x, v)
        /\ \A u, v \in SiteFractionIndices :
              /\ KeyOf(u, v) \in DOMAIN call.result
              /\ call.result[KeyOf(u, v)] =
                     call.x[FracIndex + 1] * EnergySecondDerivative(call.x, u, v)

\* the part of C29 that the code keeps: the pairs of site fractions, and
\* the pairs {_FRAC, v} when _FRAC is numbered before every site fraction
C29_HessianWithFracFirst ==
    call.op = "evaluate_objective_hessian" =>
        /\ \A v \in SiteFractionIndices :
              (EnergyDerivative(call.x, v) # 0 /\ FracIndex < v) =>
                 /\ KeyOf(FracIndex, v) \in call.sparsity
                 /\ call.result[KeyOf(FracIndex, v)] = EnergyDerivative(call.x, v)
        /\ \A v \in SiteFractionIndices :
              FracIndex > v => /\ KeyOf(FracIndex, v) \notin call.sparsity
                               /\ call.result[KeyOf(FracIndex, v)] = 0
        /\ \A u, v \in SiteFractionIndices :
              /\ KeyOf(u, v) \in DOMAIN call.result
              /\ call.result[KeyOf(u, v)] =
                     call.x[FracIndex + 1] * EnergySecondDerivative(call.x, u, v)

\* C30: a set built by the clone constructor has the constraint data of
\* the original after construction: as many constraints, the same variable
\* indices under the renamed names, the same null-space basis Z and the same
\* gradient projector Z * trans(Z).
C30_CloneConstraintData ==
    \A name \in DOMAIN compsets :
        /\ Len(compsets[name].cm) = Len(OriginalSet.cm)
        /\ compsets[name].phase_indices =
               RenamedIndices(OriginalSet.phase_indices, sys.phaseobj.name, name)
        /\ compsets[name].constraint_null_space_matrix =
               OriginalSet.constraint_null_space_matrix
        /\ compsets[name].gradient_projector = OriginalSet.gradient_projector

\* the part of C30 that the code keeps: everything but the projector,
\* which a clone is left without
C30_CloneConstraintDataButProjector ==
    \A name \in DOMAIN compsets :
        /\ Len(compsets[name].cm) = Len(OriginalSet.cm)
        /\ compsets[name].phase_indices =
               RenamedIndices(OriginalSet.phase_indices, sys.phaseobj.name, name)
        /\ compsets[name].constraint_null_space_matrix =
               OriginalSet.constraint_null_space_matrix
        /\ compsets[name].gradient_projector \in {OriginalSet.gradient_projector, EmptyMatrix}
        /\ name = <<"ALPHA", "2">> => compsets[name].gradient_projector = EmptyMatrix

----------------------------------------------------------------------------
(* Properties of the Redlich-Kister enumeration (specification SpecRK) *)

\* the selections with an interaction: two or three species on at least
\* one sublattice, one to three on the others
InteractionSelections ==
    {c \in ConstituentArrays(sys.total_view) :
        \E s \in 1..Len(sys.total_view) : Cardinality(c[s]) >= 2}

\* the site fractions of a selection
SelectionVariables(c) ==
    UNION {{SiteFractionName(<<"ALPHA">>, s - 1, sp) : sp \in c[s]} : s \in 1..Len(c)}

\* how often a selection reached the parameter lookup
LookupCount(c) ==
    Cardinality({n \in 1..Len(call.lookups) :
                    ConstituentsOf(call.lookups[n], Len(sys.total_view)) = c})

\* the terms of the model tree that carry the parameter of a selection
TermsOf(c) == {t \in 1..Len(call.model_ast) : call.model_ast[t].param = c}

\* the number of orders in which the species of a selection can be picked
OrderedPicks(c) ==
    Product([s \in 1..Len(c) |->
                IF Cardinality(c[s]) = 3 THEN 6 ELSE Cardinality(c[s])])

\* C23: every unordered pair and every unordered triple of species of a
\* sublattice, combined with the choices on the other sublattices, reaches
\* the parameter lookup exactly once, and a matching parameter contributes
\* exactly one term, the product of the site fractions of the selection and
\* the parameter; a selection of one species on every sublattice is not
\* looked up, and the tree is 0 when no interaction parameter matches.
C23_EachInteractionOnce ==
    call.op = "permute_site_fractions_with_interactions" =>
        /\ \A c \in InteractionSelections : LookupCount(c) = 1
        /\ \A c \in InteractionSelections \cap sys.param_view :
              /\ Cardinality(TermsOf(c)) = 1
              /\ \A t \in TermsOf(c) :
                    /\ Range(call.model_ast[t].vars) = SelectionVariables(c)
                    /\ Len(call.model_ast[t].vars) = Cardinality(SelectionVariables(c))
        /\ \A n \in 1..Len(call.lookups) :
              ConstituentsOf(call.lookups[n], Len(sys.total_view)) \in InteractionSelections
        /\ InteractionSelections \cap sys.param_view = {} => call.model_ast = <<>>

\* what the enumeration does: a selection is looked up once for every
\* order in which its species can be picked, and a matching parameter
\* contributes as many equal terms
C23_EachInteractionOncePerOrder ==
    call.op = "permute_site_fractions_with_interactions" =>
        /\ call.valid
        /\ \A c \in InteractionSelections : LookupCount(c) = OrderedPicks(c)
        /\ \A c \in InteractionSelections \cap sys.param_view :
              /\ Cardinality(TermsOf(c)) = OrderedPicks(c)
              /\ \A t \in TermsOf(c) :
                    /\ Range(call.model_ast[t].vars) = SelectionVariables(c)
                    /\ Len(call.model_ast[t].vars) = Cardinality(SelectionVariables(c))
                    /\ call.model_ast[t].factor = sys.param_division_factor
        /\ \A n \in 1..Len(call.lookups) :
              ConstituentsOf(call.lookups[n], Len(sys.total_view)) \in InteractionSelections
        /\ InteractionSelections \cap sys.param_view = {} => call.model_ast = <<>>

----------------------------------------------------------------------------
(* Properties of the merge loop (specifications SpecMerge, SpecMergeLive) *)

MergeFinished == call.pc \in {"done", "undefined"}

\* C21: while the merge loop runs it never advances an iterator that is at
\* end(), and when it has finished every pair of remaining candidates of
\* one phase has been compared.
C21_MergeLoopSafe ==
    /\ call.pc # "undefined"
    /\ call.pc = "done" =>
          \A a, b \in call.ids :
             (a < b /\ Entry(hull_map, a).phase_name = Entry(hull_map, b).phase_name)
                => {a, b} \in call.compared

\* the part of C21 that the code keeps: the loop comes to an end
C21_MergeLoopTerminates == <>MergeFinished

\* the loop stepped through is the loop find_tie_points runs
C21_MergeLoopIsMergeTiePoints ==
    /\ call.pc = "done" =>
          MergeTiePoints(hull_map, call.candidate_ids) = [ids |-> call.ids, undefined |-> FALSE]
    /\ call.pc = "undefined" => MergeTiePoints(hull_map, call.candidate_ids).undefined

----------------------------------------------------------------------------
(* Further properties of the minimizer (specification Spec) *)

----------------------------------------------------------------------------
(* Further properties of the internal hull builder (specification SpecHull) *)

EnergyOf(pt) == pt[Len(pt)]

\* the first input point, in input order, whose energy is minimal
FirstLowest ==
    CHOOSE i \in 1..Len(points) :
        /\ \A j \in 1..Len(points) : EnergyOf(points[i]) <= EnergyOf(points[j])
        /\ \A j \in 1..(i - 1) : EnergyOf(points[j]) > EnergyOf(points[i])

\* C24: handed more points than dimensions, and with no candidate vertex
\* from the hull engine, the internal hull builder returns exactly one point:
\* the site fractions of the first input point of minimal energy.
C24_LowestEnergyFallback ==
    (call.op = "internal_hull" /\ call.path = "lowest")
        => final_points = <<InputSiteFractions(FirstLowest)>>

\* the fallback has answered for a grid whose lowest energy is shared by
\* several points, the first of them not the first point of the grid
C24_Witness ==
    /\ call.op = "internal_hull"
    /\ call.path = "lowest"
    /\ FirstLowest > 1
    /\ \E j \in (FirstLowest + 1)..Len(points) :
          EnergyOf(points[j]) = EnergyOf(points[FirstLowest])
    /\ Len(final_points) = 1

NoTwoIdentical(pts) ==
    \A i, j \in 1..Len(pts) : i # j => ~too_similar(pts[i], pts[j])

\* C25: the list the internal hull builder returns on the hull path holds no
\* two identical points, for phases with one or with several sublattices.
C25_NoDuplicatesReturned ==
    (call.op = "internal_hull" /\ call.path = "hull") => NoTwoIdentical(final_points)

\* for phases with one sublattice the list holds no two identical points
C25_NoDuplicatesOneSublattice ==
    (call.op = "internal_hull" /\ call.path = "hull" /\ Len(phase_sublattices) = 1)
        => NoTwoIdentical(final_points)

\* C28: on every path each point the internal hull builder returns is the
\* site fractions of one of the input points, and has as many coordinates
\* as the phase has site fractions.
C28_OutputSubsetOfInput ==
    call.op = "internal_hull"
        => \A k \in 1..Len(final_points) :
              /\ \E i \in 1..Len(points) : final_points[k] = InputSiteFractions(i)
              /\ Len(final_points[k]) = SeqSum(phase_sublattices)

\* for phases with one sublattice the returned points are input points
C28_OutputSubsetOneSublattice ==
    (call.op = "internal_hull" /\ Len(phase_sublattices) = 1)
        => \A k \in 1..Len(final_points) :
              /\ \E i \in 1..Len(points) : final_points[k] = InputSiteFractions(i)
              /\ Len(final_points[k]) = SeqSum(phase_sublattices)

\* every returned point has as many coordinates as the phase has site
\* fractions
C28_OutputLength ==
    call.op = "internal_hull"
        => \A k \in 1..Len(final_points) : Len(final_points[k]) = SeqSum(phase_sublattices)

----------------------------------------------------------------------------
(* The target vector of find_tie_points against the rows of a basis matrix *)

\* conditions.xfrac is a map from element name to mole fraction; elements
\* are numbered 1..E in the order of their names.  The maps considered name
\* all E elements or any E - 1 of them.
XfracMaps(elements) ==
    {named \in SUBSET (1..elements) : Cardinality(named) \in {elements - 1, elements}}

\* lines 254-258: one component per entry of the map, in the order of the
\* map (by element name), then the constant 1 (element 0 stands for it)
TrialPointElements(named) == SetToSeq(named) \o <<0>>

\* lines 110-122: row r of the matrix holds coordinate r of the vertices'
\* points as the engine holds them, i.e. the mole fraction of element r
\* (the last element's is dropped); the last row is the constant 1
BasisRowElements(facet) ==
    [row \in 1..Len(facet.basis_matrix) |->
        IF row = Len(facet.basis_matrix) THEN 0 ELSE row]

\* columns of the basis matrix; the matrix of the single-point facet is
\* never given a size
BasisColumns(facet) ==
    IF facet.basis_matrix = <<>> THEN 0 ELSE Len(facet.basis_matrix[1])

\* C27: for every facet run() produced and every xfrac map that names all
\* elements or all but one, the target vector of find_tie_points has as many
\* components as the basis matrix has columns, and component k is for the
\* element of row k (the last for the constant 1).
C27_TargetAlignedWithBasis ==
    \A k \in 1..Len(candidate_facets) :
        \A named \in XfracMaps(sys.elements) :
            /\ Len(TrialPointElements(named)) = BasisColumns(candidate_facets[k])
            /\ TrialPointElements(named) = BasisRowElements(candidate_facets[k])

\* for the facets built from the engine's answer and the xfrac map that
\* names all elements but the last, the target vector and the basis matrix
\* are aligned
C27_AlignedForLeadingElements ==
    \A k \in 1..Len(candidate_facets) :
        candidate_facets[k].basis_matrix # <<>> =>
            /\ Len(TrialPointElements(1..(sys.elements - 1))) = BasisColumns(candidate_facets[k])
            /\ TrialPointElements(1..(sys.elements - 1)) = BasisRowElements(candidate_facets[k])
            /\ \A xfrac \in Targets(sys.elements) :
                  Len(TrialPoint(xfrac)) = BasisColumns(candidate_facets[k])

\* the target vector of a call of find_tie_points (its xfrac names all
\* elements but the last) has as many components as the basis matrix of
\* every facet has columns
C27_CallTargetMatchesColumns ==
    call.op = "find_tie_points" =>
        \A k \in 1..Len(candidate_facets) :
            Len(TrialPoint(call.xfrac)) = BasisColumns(candidate_facets[k])

----------------------------------------------------------------------------
(* Ids of the hull map against the point ids of the global hull *)

\* the point of the hull map's entry id, as run() hands it to the global
\* hull: mole fractions, then energy
HullPointOf(id) ==
    Entry(hull_map, id).global_coordinates \o <<Entry(hull_map, id).energy>>

\* position of a phase in the phase list
PhasePosition(phase_name) ==
    CHOOSE p \in 1..Len(sys.phases) : sys.phases[p].name = phase_name

IdsDense == \A k \in 1..Len(hull_map) : hull_map[k].id = k - 1

GroupedByPhase ==
    \A i, j \in 1..Len(hull_map) :
        i < j => PhasePosition(hull_map[i].phase_name) <= PhasePosition(hull_map[j].phase_name)

VerticesDenoteHullPoints ==
    \A k \in 1..Len(candidate_facets) :
        \A v \in Range(candidate_facets[k].vertices) :
            /\ v < Len(hull_map)
            /\ HullPointOf(v) = call.temporary_hull_storage[v + 1]

\* C26: after any sequence of run() calls, every vertex id of the facet list
\* denotes the hull-map entry that holds the point handed to the global hull
\* at that index; ids are dense and grouped by phase in phase-list order.
C26_IdCorrespondence ==
    (call.op = "run" /\ ~call.thrown)
        => (VerticesDenoteHullPoints /\ IdsDense /\ GroupedByPhase)

\* after the first run() of a minimizer the ids correspond, are dense and
\* are grouped by phase
C26_IdCorrespondenceFirstRun ==
    (call.op = "run" /\ ~call.thrown /\ Len(hull_map) = Len(call.temporary_hull_storage))
        => (VerticesDenoteHullPoints /\ IdsDense /\ GroupedByPhase)

\* ids are dense after any sequence of calls
C26_IdsDense == IdsDense

\* an id never changes the entry it denotes: a step keeps every entry, but
\* for its flag
C26_IdsStable ==
    [][/\ Len(hull_map') >= Len(hull_map)
       /\ \A k \in 1..Len(hull_map) :
             [hull_map'[k] EXCEPT !.global_hull_status = FALSE]
                = [hull_map[k] EXCEPT !.global_hull_status = FALSE]]_vars

====
